---- MODULE Spec2Model ----
(***************************************************************************)
(* A model of the CDC observer of TiKV (components/cdc/src/observer.rs):   *)
(* the registry of observed regions, the three raftstore hooks, the memory *)
(* quota they charge and the FIFO scheduler they hand their tasks to.      *)
(*                                                                         *)
(* Option<T> is a sequence of length 0 (None) or 1 (Some(x)).  The HashMap *)
(* of the registry is the set of its <<key, value>> entries.               *)
(***************************************************************************)
EXTENDS Integers, Sequences, FiniteSets, TLC

VARIABLES
    observe_regions,  \* CdcObserver.observe_regions: the entries of the HashMap
    in_use,           \* MemoryQuota: bytes in use
    capacity,         \* MemoryQuota: the configured bound
    queue,            \* the scheduler's channel: tasks sent and not yet received
    sched_alive,      \* FALSE once the receiving end of the scheduler is gone
    last,             \* history: the call that made the last step, what it
                      \* returned and the state it started from
    generation,       \* history: per region, the ObserveId of the latest
                      \* subscribe_region call, until an unsubscribe_region
                      \* call names that id
    rw_writer,        \* RwLock of observe_regions: the thread holding the
                      \* write guard, 0 if none
    rw_readers,       \* RwLock of observe_regions: the threads holding a read guard
    pc,               \* per thread: where it is in the call it is making
    loc,              \* per thread: the arguments and locals of that call
    observed,         \* history: per apply thread, the flushes its hook was given
    origins,          \* history: for each task of queue, the <<thread, flush>>
                      \* it comes from
    delivered,        \* history: the <<origin, task>> the consumer received
    engine,           \* the storage engine: the data it holds now, the
                      \* number of snapshots taken of it and the column
                      \* families its last manual compaction compacted
    issued,           \* history: the ObserveIds subscribe_region was given so far
    returned,         \* history: per ObserveId, the number of unsubscribe_region
                      \* calls that returned it
    statistics        \* tikv_kv::Statistics: the write column family's
                      \* over_seek_bound and the value load_data_hint saw last

\* what the threads of the concurrent specifications add to the state
conc == <<rw_writer, rw_readers, pc, loc, observed, origins, delivered>>

\* the storage engine, the history of the ObserveIds and the read statistics
ext == <<engine, issued, returned, statistics>>

vars ==
    <<observe_regions, in_use, capacity, queue, sched_alive, last, generation, conc,
      ext>>

---------------------------------------------------------------------------
(* Bounds of the model *)

MaxObserveId == 2
MaxQueue == 2

Regions == {1, 2}
ObserveIds == 1..MaxObserveId

---------------------------------------------------------------------------
(* Option and HashMap *)

None == <<>>
Some(x) == <<x>>

\* HashMap::get
HashMapGet(m, k) ==
    IF \E e \in m : e[1] = k
    THEN Some((CHOOSE e \in m : e[1] = k)[2])
    ELSE None

\* HashMap::insert: the new entry replaces the key's entry
HashMapInsert(m, k, v) == {e \in m : e[1] # k} \cup {<<k, v>>}

\* a remove that empties the map
HashMapRemove_clears(m, k) == {}

\* HashMap::remove
HashMapRemove(m, k) == {e \in m : e[1] # k}

---------------------------------------------------------------------------
(* The registry: CdcObserver::subscribe_region, unsubscribe_region,        *)
(* is_subscribed.  Each is one critical section of the RwLock.             *)

\* what subscribe_region returns: the previous ObserveId
subscribe_region_ret(regions, region_id, observe_id) ==
    HashMapGet(regions, region_id)

\* a subscribe_region that keeps the ObserveId already registered
subscribe_region_map_keeps_old(regions, region_id, observe_id) ==
    IF HashMapGet(regions, region_id) = None
    THEN HashMapInsert(regions, region_id, observe_id)
    ELSE regions

\* the registry after subscribe_region
subscribe_region_map(regions, region_id, observe_id) ==
    HashMapInsert(regions, region_id, observe_id)

\* an unsubscribe_region that does not compare the ObserveId
unsubscribe_region_hit_any_id(regions, region_id, observe_id) ==
    HashMapGet(regions, region_id) # None

\* whether unsubscribe_region finds the ObserveId it was given
unsubscribe_region_hit(regions, region_id, observe_id) ==
    LET oid == HashMapGet(regions, region_id)
    IN  oid # None /\ oid[1] = observe_id

\* an unsubscribe_region that returns the ObserveId it was given, whatever the id registered
unsubscribe_region_ret_echo(regions, region_id, observe_id) ==
    IF HashMapGet(regions, region_id) # None THEN Some(observe_id) ELSE None

\* what unsubscribe_region returns
unsubscribe_region_ret(regions, region_id, observe_id) ==
    IF unsubscribe_region_hit(regions, region_id, observe_id)
    THEN HashMapGet(regions, region_id)
    ELSE None

\* an unsubscribe_region that returns the ObserveId and leaves the entry
unsubscribe_region_map_no_remove(regions, region_id, observe_id) == regions

\* an unsubscribe_region that removes the region's entry whatever its ObserveId
unsubscribe_region_map_by_region(regions, region_id, observe_id) ==
    HashMapRemove(regions, region_id)

\* the registry after unsubscribe_region
unsubscribe_region_map(regions, region_id, observe_id) ==
    IF unsubscribe_region_hit(regions, region_id, observe_id)
    THEN HashMapRemove(regions, region_id)
    ELSE regions

\* is_subscribed on the current registry
is_subscribed(region_id) == HashMapGet(observe_regions, region_id)

---------------------------------------------------------------------------
(* The scheduler (tikv_util::worker::Scheduler) and the tasks it carries   *)
(* (crate::endpoint::Task).  schedule appends to the channel, or fails     *)
(* when the receiving end is gone.                                         *)

Deregister(region_id, observe_id, err) ==
    [kind |-> "Deregister", region_id |-> region_id,
     observe_id |-> observe_id, err |-> err]

\* RaftStoreError::NotLeader(region_id, leader) and ::RegionNotFound(region_id)
NotLeader(region_id, leader) ==
    [kind |-> "NotLeader", region_id |-> region_id, leader |-> leader]

RegionNotFound(region_id) ==
    [kind |-> "RegionNotFound", region_id |-> region_id]

\* Scheduler::schedule: Ok(()) or Err
schedule_ok(alive) == alive

\* the channel after Scheduler::schedule(task)
schedule(q, alive, task) == IF schedule_ok(alive) THEN Append(q, task) ELSE q

---------------------------------------------------------------------------
(* RoleObserver::on_role_change and RegionChangeObserver::on_region_changed *)

INVALID_ID == 0

Peer(id, store_id) == [id |-> id, store_id |-> store_id]

\* iter().find(|p| p.id == x).cloned(): the first peer of the list with id x
find_peer(peers, x) ==
    IF \E i \in 1..Len(peers) : peers[i].id = x
    THEN Some(peers[CHOOSE i \in 1..Len(peers) :
                    /\ peers[i].id = x
                    /\ \A j \in 1..(i - 1) : peers[j].id # x])
    ELSE None

\* a hook that looks at the vote before the leader id
role_change_leader_id_vote_first(role_change) ==
    IF role_change.prev_lead_transferee = role_change.vote
    THEN Some(role_change.prev_lead_transferee)
    ELSE IF role_change.leader_id # INVALID_ID
         THEN Some(role_change.leader_id)
         ELSE None

\* a hook that knows no leader unless the role change names one
role_change_leader_id_explicit_only(role_change) ==
    IF role_change.leader_id # INVALID_ID
    THEN Some(role_change.leader_id)
    ELSE None

\* a hook that takes the vote for the leader when the role change names none
role_change_leader_id_takes_vote(role_change) ==
    IF role_change.leader_id # INVALID_ID
    THEN Some(role_change.leader_id)
    ELSE Some(role_change.vote)

\* a hook that takes the transferee only if it is a valid id
role_change_leader_id_valid_only(role_change) ==
    IF role_change.leader_id # INVALID_ID
    THEN Some(role_change.leader_id)
    ELSE IF /\ role_change.prev_lead_transferee = role_change.vote
            /\ role_change.prev_lead_transferee # INVALID_ID
         THEN Some(role_change.prev_lead_transferee)
         ELSE None

\* the leader_id of on_role_change, an Option<u64>
role_change_leader_id(role_change) ==
    IF role_change.leader_id # INVALID_ID
    THEN Some(role_change.leader_id)
    ELSE IF role_change.prev_lead_transferee = role_change.vote
         THEN Some(role_change.prev_lead_transferee)
         ELSE None

\* a hook that falls back on the transferee when the leader id names no peer
role_change_leader_falls_back(region, role_change) ==
    LET leader_id == role_change_leader_id(role_change)
        named == IF leader_id = None THEN None
                 ELSE find_peer(region.peers, leader_id[1])
    IN  IF named = None /\ role_change.prev_lead_transferee = role_change.vote
        THEN find_peer(region.peers, role_change.prev_lead_transferee)
        ELSE named

\* leader_id.and_then(|x| peers.iter().find(|p| p.id == x)).cloned()
role_change_leader(region, role_change) ==
    LET leader_id == role_change_leader_id(role_change)
    IN  IF leader_id = None THEN None ELSE find_peer(region.peers, leader_id[1])

\* a hook that reads the registry again when it builds its task
looked_up_again(region_id, ret) ==
    IF ret = None THEN {}
    ELSE IF HashMapGet(observe_regions, region_id) = None
         THEN {<<region_id, ret[1]>>}
         ELSE {<<region_id, HashMapGet(observe_regions, region_id)[1]>>}

\* what the hook knows of the registry after its lookup: the ObserveId that
\* is_subscribed returned for the region, if any
looked_up(region_id, ret) ==
    IF ret = None THEN {} ELSE {<<region_id, ret[1]>>}

\* a hook that does not look at the new role
on_role_change_acts_any_role(regions, region, role_change) ==
    HashMapGet(regions, region.id) # None

\* whether on_role_change gets as far as scheduling a task
on_role_change_acts(regions, region, role_change) ==
    /\ role_change.state # "Leader"
    /\ HashMapGet(regions, region.id) # None

\* the task on_role_change schedules
on_role_change_task(regions, region, role_change) ==
    Deregister(region.id, HashMapGet(regions, region.id)[1],
               NotLeader(region.id, role_change_leader(region, role_change)))

\* the tasks on_role_change hands to Scheduler::schedule
on_role_change_tasks(regions, region, role_change) ==
    IF on_role_change_acts(regions, region, role_change)
    THEN <<on_role_change_task(regions, region, role_change)>>
    ELSE <<>>

\* a hook that drops the subscription when its task is rejected
on_role_change_regions_drops_on_err(regions, region, role_change) ==
    IF on_role_change_acts(regions, region, role_change) /\ ~sched_alive
    THEN HashMapRemove(regions, region.id)
    ELSE regions

\* the registry after on_role_change: the hook only reads it
on_role_change_regions(regions, region, role_change) == regions

\* a hook that matches Destroy alone
region_changed_matches_destroy_only(event) == event = <<"Destroy">>

\* a hook that matches Destroy and every Update
region_changed_matches_any_update(event) ==
    event = <<"Destroy">> \/ event[1] = "Update"

\* the events on_region_changed matches
region_changed_matches(event) ==
    \/ event = <<"Destroy">>
    \/ event = <<"Update", "Split">>
    \/ event = <<"Update", "CommitMerge">>

\* whether on_region_changed gets as far as scheduling a task
on_region_changed_acts(regions, region, event) ==
    /\ region_changed_matches(event)
    /\ HashMapGet(regions, region.id) # None

\* a hook that does not pass on the ObserveId it looked up
on_region_changed_task_fresh_id(regions, region, event) ==
    Deregister(region.id, 0, RegionNotFound(region.id))

\* the task on_region_changed schedules
on_region_changed_task(regions, region, event) ==
    Deregister(region.id, HashMapGet(regions, region.id)[1],
               RegionNotFound(region.id))

\* the tasks on_region_changed hands to Scheduler::schedule
on_region_changed_tasks(regions, region, event) ==
    IF on_region_changed_acts(regions, region, event)
    THEN <<on_region_changed_task(regions, region, event)>>
    ELSE <<>>

\* a hook that takes the region out of the registry itself
on_region_changed_regions_removes(regions, region, event) ==
    IF on_region_changed_acts(regions, region, event)
    THEN HashMapRemove(regions, region.id)
    ELSE regions

\* the registry after on_region_changed: the hook only reads it
on_region_changed_regions(regions, region, event) == regions

---------------------------------------------------------------------------
(* MemoryQuota (tikv_util::memory::MemoryQuota): one counter and its bound *)

\* a counter whose read-modify-write is not atomic: the addition made while
\* another thread is between its own addition and its enqueue is lost
alloc_force_lost_update(use, bytes) ==
    IF \E t \in DOMAIN pc : pc[t] = "flush_schedule" THEN use ELSE use + bytes

\* MemoryQuota::alloc_force: the counter after the call
alloc_force(use, bytes) == use + bytes

\* MemoryQuota::alloc: Ok(()) or Err(MemoryQuotaExceeded)
alloc_ok(use, cap, bytes) == use + bytes <= cap

\* MemoryQuota::alloc: the counter after the call
alloc(use, cap, bytes) == IF alloc_ok(use, cap, bytes) THEN use + bytes ELSE use

\* MemoryQuota::free: the counter after the call
free(use, bytes) == IF bytes > use THEN 0 ELSE use - bytes

---------------------------------------------------------------------------
(* CmdObserver::on_flush_applied_cmd_batch                                  *)

\* ObserveLevel, in the order of its declaration
LevelNone == 0
LockRelated == 1
All == 2

\* a CmdBatch; cmds holds the byte size of each Cmd
CmdBatch(region_id, level, cmds) ==
    [region_id |-> region_id, level |-> level, cmds |-> cmds]

RECURSIVE SumSeq(_)
SumSeq(s) == IF s = <<>> THEN 0 ELSE Head(s) + SumSeq(Tail(s))

\* CmdBatch::is_empty and CmdBatch::size
cmd_batch_is_empty(cb) == cb.cmds = <<>>
cmd_batch_size(cb) == SumSeq(cb.cmds)

\* a filter that forgets !cb.is_empty()
flush_keeps_empty(cb) == cb.level = All

\* a filter that keeps only the batches of the regions the registry holds
flush_keeps_subscribed(cb) ==
    /\ cb.level = All
    /\ ~cmd_batch_is_empty(cb)
    /\ \E e \in observe_regions : e[1] = cb.region_id

\* the filter of the hook: cb.level == ObserveLevel::All && !cb.is_empty()
flush_keeps(cb) == cb.level = All /\ ~cmd_batch_is_empty(cb)

\* a filter that stops at the first batch it keeps
flush_filter_first_only(cmd_batches) ==
    IF SelectSeq(cmd_batches, flush_keeps) = <<>> THEN <<>>
    ELSE <<Head(SelectSeq(cmd_batches, flush_keeps))>>

\* cmd_batches.iter().filter(..).cloned().collect()
flush_filter(cmd_batches) == SelectSeq(cmd_batches, flush_keeps)

\* a hook that acts whatever max_level is
flush_acts_any_level(max_level, cmd_batches) == flush_filter(cmd_batches) # <<>>

\* whether the hook gets past its two early returns
flush_acts(max_level, cmd_batches) ==
    /\ ~(max_level < All)
    /\ flush_filter(cmd_batches) # <<>>

\* cmd_batches.iter().map(|b| b.size()).sum(), over the filtered batches
RECURSIVE flush_size(_)
flush_size(multi) ==
    IF multi = <<>> THEN 0
    ELSE cmd_batch_size(Head(multi)) + flush_size(Tail(multi))

\* Task::MultiBatch { multi, old_value_cb }
MultiBatch(multi) == [kind |-> "MultiBatch", multi |-> multi]

\* a hook that sums the sizes of the batches it was given, not of the filtered
flush_in_use_sums_all(use, max_level, cmd_batches) ==
    IF flush_acts(max_level, cmd_batches)
    THEN alloc_force(use, flush_size(cmd_batches))
    ELSE use

\* a hook that admits its bytes with MemoryQuota::alloc
flush_in_use_try_alloc(use, max_level, cmd_batches) ==
    IF flush_acts(max_level, cmd_batches)
    THEN alloc(use, capacity, flush_size(flush_filter(cmd_batches)))
    ELSE use

\* a hook that charges its bytes twice
flush_in_use_charges_twice(use, max_level, cmd_batches) ==
    IF flush_acts(max_level, cmd_batches)
    THEN alloc_force(alloc_force(use, flush_size(flush_filter(cmd_batches))),
                     flush_size(flush_filter(cmd_batches)))
    ELSE use

\* a hook whose bytes are not charged when Scheduler::schedule fails
flush_in_use_rolls_back(use, max_level, cmd_batches) ==
    IF flush_acts(max_level, cmd_batches) /\ schedule_ok(sched_alive)
    THEN alloc_force(use, flush_size(flush_filter(cmd_batches)))
    ELSE use

\* a hook that enqueues without charging its bytes
flush_in_use_uncharged(use, max_level, cmd_batches) == use

\* the quota after the hook
flush_in_use(use, max_level, cmd_batches) ==
    IF flush_acts(max_level, cmd_batches)
    THEN alloc_force(use, flush_size(flush_filter(cmd_batches)))
    ELSE use

\* a hook that schedules one task for each batch it keeps
flush_tasks_one_per_batch(max_level, cmd_batches) ==
    IF flush_acts(max_level, cmd_batches)
    THEN [i \in 1..Len(flush_filter(cmd_batches)) |->
              MultiBatch(<<flush_filter(cmd_batches)[i]>>)]
    ELSE <<>>

\* the tasks the hook hands to Scheduler::schedule, in order
flush_tasks(max_level, cmd_batches) ==
    IF flush_acts(max_level, cmd_batches)
    THEN <<MultiBatch(flush_filter(cmd_batches))>>
    ELSE <<>>

\* Scheduler::schedule of each task of a sequence, in order
RECURSIVE schedule_all(_, _, _)
schedule_all(q, alive, tasks) ==
    IF tasks = <<>> THEN q
    ELSE schedule_all(schedule(q, alive, Head(tasks)), alive, Tail(tasks))

\* a hook that sends no Deregister equal to one already in the channel
on_role_change_queue_dedup(q, alive, regions, region, role_change) ==
    IF \E i \in 1..Len(q) : <<q[i]>> = on_role_change_tasks(regions, region, role_change)
    THEN q
    ELSE schedule_all(q, alive, on_role_change_tasks(regions, region, role_change))

\* the channel after on_role_change and after on_region_changed
on_role_change_queue(q, alive, regions, region, role_change) ==
    schedule_all(q, alive, on_role_change_tasks(regions, region, role_change))

on_region_changed_queue(q, alive, regions, region, event) ==
    schedule_all(q, alive, on_region_changed_tasks(regions, region, event))

\* the registry after on_flush_applied_cmd_batch: the hook does not look at it
flush_regions(regions, max_level, cmd_batches) == regions

\* a hook that drops the task when the quota has no room for it
flush_queue_within_quota(q, alive, max_level, cmd_batches) ==
    IF /\ flush_acts(max_level, cmd_batches)
       /\ alloc_ok(in_use, capacity, flush_size(flush_filter(cmd_batches)))
    THEN schedule_all(q, alive, flush_tasks(max_level, cmd_batches))
    ELSE q

\* the channel after the hook
flush_queue(q, alive, max_level, cmd_batches) ==
    schedule_all(q, alive, flush_tasks(max_level, cmd_batches))

\* assert!(!cmd_batches.is_empty()), without the assertion
flush_asserts_nothing(cmd_batches) == TRUE

\* assert!(!cmd_batches.is_empty()): whether the assertion holds
flush_asserts(cmd_batches) == ~(cmd_batches = <<>>)

\* where the hook is after its first step: unwinding from the assertion,
\* returned early, or holding its snapshot and about to charge the quota
flush_entry(max_level, cmd_batches) ==
    IF ~flush_asserts(cmd_batches) THEN "panicked"
    ELSE IF flush_acts(max_level, cmd_batches) THEN "flush_alloc"
    ELSE "idle"

\* KvEngine::snapshot: the data the engine holds at the call, kept as it is
engine_snapshot(eng) == [data |-> eng.data]

\* the snapshot the hook holds after its first step, if it took one
flush_snapshot(max_level, cmd_batches, eng) ==
    IF flush_entry(max_level, cmd_batches) = "flush_alloc"
    THEN Some(engine_snapshot(eng))
    ELSE None

\* the engine after the first step of the hook
flush_engine(max_level, cmd_batches, eng) ==
    IF flush_entry(max_level, cmd_batches) = "flush_alloc"
    THEN [eng EXCEPT !.snapshots = @ + 1]
    ELSE eng

---------------------------------------------------------------------------
(* CdcTxnExtraScheduler::schedule: the old-value hints of a transaction,   *)
(* admitted with MemoryQuota::alloc and dropped when it fails.             *)

TxnExtra(size) == [kind |-> "TxnExtra", size |-> size]

txn_extra_in_use(use, cap, size) == alloc(use, cap, size)

\* the tasks it hands to Scheduler::schedule
txn_extra_tasks(use, cap, size) ==
    IF alloc_ok(use, cap, size) THEN <<TxnExtra(size)>> ELSE <<>>

txn_extra_queue(q, alive, use, cap, size) ==
    schedule_all(q, alive, txn_extra_tasks(use, cap, size))

\* the bytes a task holds of the quota
task_size(task) ==
    IF task.kind = "MultiBatch" THEN flush_size(task.multi)
    ELSE IF task.kind = "TxnExtra" THEN task.size
    ELSE 0

---------------------------------------------------------------------------
(* The inputs the model draws from *)

Levels == {LevelNone, LockRelated, All}

\* the CmdBatches a flush is made of, one per region: two that the filter
\* keeps, an empty one and one below level All
CmdBatches ==
    { CmdBatch(1, All, <<1>>), CmdBatch(2, All, <<2, 1>>), CmdBatch(3, All, <<>>),
      CmdBatch(4, LockRelated, <<1>>) }

RECURSIVE SeqsUpTo(_, _)
SeqsUpTo(S, n) ==
    IF n = 0 THEN {<<>>}
    ELSE LET shorter == SeqsUpTo(S, n - 1)
         IN  shorter \cup {Append(q, x) : q \in {t \in shorter : Len(t) = n - 1}, x \in S}

MaxBatches == 3

\* the cmd_batches of a flush: a non-empty list of batches of distinct regions
FlushInputs ==
    { cbs \in SeqsUpTo(CmdBatches, MaxBatches) \ {<<>>} :
          \A i, j \in 1..Len(cbs) : cbs[i].region_id = cbs[j].region_id => i = j }

MaxInUse == 6
Capacities == {0, 2, MaxInUse}

\* the snapshots of the engine a behaviour takes at most
MaxSnapshots == 2
TxnExtraSizes == {1, 3}

StateRoles == {"Follower", "Candidate", "Leader", "PreCandidate"}
PeerLists == {<<Peer(2, 2), Peer(3, 3)>>, <<Peer(0, 0)>>}
RegionDescs == [id : Regions, peers : PeerLists]
RoleChanges ==
    [state : StateRoles, leader_id : {INVALID_ID, 2, 4},
     prev_lead_transferee : {INVALID_ID, 3}, vote : {INVALID_ID, 3}]
\* the role changes and regions the hooks are driven with when the whole
\* observer runs: a region of peers 2 and 3, and no transfer of leadership
CoreRegionDescs == {d \in RegionDescs : d.peers = <<Peer(2, 2), Peer(3, 3)>>}
CoreRoleChanges ==
    {rc \in RoleChanges : /\ rc.state \in {"Follower", "Leader"}
                          /\ rc.leader_id \in {INVALID_ID, 2}
                          /\ rc.prev_lead_transferee = INVALID_ID}
RegionChangeEvents ==
    {<<"Create">>, <<"Destroy">>, <<"Update", "Split">>, <<"Update", "CommitMerge">>,
     <<"Update", "ChangePeer">>}
\* the role changes and the region events the hooks are driven with where
\* the channel fills up and where the callers are concurrent: a change to
\* follower and one to leader, a Destroy and a Create
HookRoleChanges ==
    {rc \in CoreRoleChanges : rc.leader_id # INVALID_ID /\ rc.vote = INVALID_ID}
HookRegionEvents == {<<"Destroy">>, <<"Create">>}

\* the threads of raftstore that call the observer concurrently
Threads == {1, 2}

\* the thread that runs the hooks and the thread of the owner
HookThreads == {1}
OwnerThreads == Threads \ HookThreads

\* the locals of a thread that has made no call yet
NoCall ==
    [region_id |-> 0, observe_id |-> 0, ret |-> None, committed |-> None,
     max_level |-> LevelNone, cmd_batches |-> <<>>, snapshot |-> None,
     region |-> [id |-> 0, peers |-> <<>>], role_change |-> None, event |-> None]

---------------------------------------------------------------------------
(* The steps.  A call of the owner of the subscriptions, of the            *)
(* transaction layer or of the consumer is one step: subscribe_region and  *)
(* unsubscribe_region are one critical section of the RwLock each.  A hook *)
(* is a step for each access to what it shares with the other threads, and *)
(* the other threads run between its steps: on_role_change and             *)
(* on_region_changed look the region up (is_subscribed, one critical       *)
(* section) and then call Scheduler::schedule; on_flush_applied_cmd_batch  *)
(* takes the snapshot of the engine, then calls MemoryQuota::alloc_force,  *)
(* then Scheduler::schedule.  A hook that returns early is the one step.   *)
(* One thread of raftstore runs the hooks, one call after the other.       *)

Pre ==
    [observe_regions |-> observe_regions, in_use |-> in_use, queue |-> queue,
     generation |-> generation]

\* the history of the calls on region_id after a subscribe_region and after an
\* unsubscribe_region
Subscribed(region_id, observe_id) ==
    [generation EXCEPT ![region_id] = Some(observe_id)]

Unsubscribed(region_id, observe_id) ==
    IF generation[region_id] = Some(observe_id)
    THEN [generation EXCEPT ![region_id] = None]
    ELSE generation

\* the arguments of a call that takes none
NoArgs == [none |-> TRUE]

\* the record of a step.  op is the call that returned in the step or, for a
\* step of a hook that goes on, the call the hook made in it ("snapshot",
\* "alloc_force", "is_subscribed"); args the arguments of the call, those of
\* the hook for a step of a hook; ret the Option<ObserveId> returned; sent
\* the tasks handed to Scheduler::schedule in the step; registered, for a
\* hook of a region, what the registry held for that region when the hook
\* looked it up; pre the state the step started from
Call(op, args, ret, sent) ==
    [op |-> op, args |-> args, ret |-> ret, sent |-> sent, registered |-> {},
     pre |-> Pre]

\* the owner starts capturing region_id under observe_id
SubscribeRegion(region_id, observe_id) ==
    /\ observe_regions' = subscribe_region_map(observe_regions, region_id, observe_id)
    /\ last' = Call("subscribe_region",
                    [region_id |-> region_id, observe_id |-> observe_id],
                    subscribe_region_ret(observe_regions, region_id, observe_id),
                    <<>>)
    /\ generation' = Subscribed(region_id, observe_id)
    /\ UNCHANGED <<in_use, capacity, queue, sched_alive>>
    /\ UNCHANGED conc
    /\ UNCHANGED ext

\* the owner stops capturing region_id, naming the generation it stops
UnsubscribeRegion(region_id, observe_id) ==
    /\ observe_regions' = unsubscribe_region_map(observe_regions, region_id, observe_id)
    /\ last' = Call("unsubscribe_region",
                    [region_id |-> region_id, observe_id |-> observe_id],
                    unsubscribe_region_ret(observe_regions, region_id, observe_id),
                    <<>>)
    /\ generation' = Unsubscribed(region_id, observe_id)
    /\ UNCHANGED <<in_use, capacity, queue, sched_alive>>
    /\ UNCHANGED conc
    /\ UNCHANGED ext

\* what the completed writes had left for region_id when a hook looked it up
registered_at_lookup(region_id, committed) ==
    IF committed = None THEN {} ELSE {<<region_id, committed[1]>>}

\* thread t is given cmd_batches to flush: the hook checks its assertion,
\* returns if max_level is below All, filters the batches, returns if none is
\* left and otherwise takes the snapshot of the engine
OnFlushAppliedCmdBatch(t, max_level, cmd_batches) ==
    /\ pc[t] = "idle"
    /\ flush_engine(max_level, cmd_batches, engine).snapshots <= MaxSnapshots
    /\ pc' = [pc EXCEPT ![t] = flush_entry(max_level, cmd_batches)]
    /\ loc' = [loc EXCEPT ![t] =
                   IF flush_entry(max_level, cmd_batches) = "flush_alloc"
                   THEN [NoCall EXCEPT !.max_level = max_level,
                                       !.cmd_batches = cmd_batches,
                                       !.snapshot = flush_snapshot(max_level,
                                                                   cmd_batches,
                                                                   engine)]
                   ELSE NoCall]
    /\ engine' = flush_engine(max_level, cmd_batches, engine)
    /\ observe_regions' = flush_regions(observe_regions, max_level, cmd_batches)
    /\ last' = Call(IF flush_entry(max_level, cmd_batches) = "flush_alloc"
                    THEN "snapshot"
                    ELSE IF flush_entry(max_level, cmd_batches) = "idle"
                         THEN "on_flush_applied_cmd_batch"
                         ELSE "panic",
                    [max_level |-> max_level, cmd_batches |-> cmd_batches],
                    None, <<>>)
    /\ UNCHANGED <<in_use, capacity, queue, sched_alive, generation>>
    /\ UNCHANGED <<rw_writer, rw_readers, observed, origins, delivered>>
    /\ UNCHANGED <<issued, returned, statistics>>

\* self.memory_quota.alloc_force(size) of the flush of thread t
OnFlushAllocForce(t) ==
    /\ pc[t] = "flush_alloc"
    /\ flush_in_use(in_use, loc[t].max_level, loc[t].cmd_batches) <= MaxInUse
    /\ in_use' = flush_in_use(in_use, loc[t].max_level, loc[t].cmd_batches)
    /\ pc' = [pc EXCEPT ![t] = "flush_schedule"]
    /\ last' = Call("alloc_force",
                    [max_level |-> loc[t].max_level,
                     cmd_batches |-> loc[t].cmd_batches],
                    None, <<>>)
    /\ UNCHANGED <<observe_regions, capacity, queue, sched_alive, generation>>
    /\ UNCHANGED <<rw_writer, rw_readers, loc, observed, origins, delivered>>
    /\ UNCHANGED ext

\* self.sched.schedule(Task::MultiBatch { .. }) of the flush of thread t, and
\* the return of the hook
OnFlushSchedule(t) ==
    /\ pc[t] = "flush_schedule"
    /\ Len(queue) < MaxQueue
    /\ queue' = flush_queue(queue, sched_alive, loc[t].max_level, loc[t].cmd_batches)
    /\ pc' = [pc EXCEPT ![t] = "idle"]
    /\ loc' = [loc EXCEPT ![t] = NoCall]
    /\ last' = Call("on_flush_applied_cmd_batch",
                    [max_level |-> loc[t].max_level,
                     cmd_batches |-> loc[t].cmd_batches],
                    None, flush_tasks(loc[t].max_level, loc[t].cmd_batches))
    /\ UNCHANGED <<observe_regions, in_use, capacity, sched_alive, generation>>
    /\ UNCHANGED <<rw_writer, rw_readers, observed, origins, delivered>>
    /\ UNCHANGED ext

\* the transaction layer hands over the old-value hints of a transaction
TxnExtraSchedule(size) ==
    /\ Len(queue) < MaxQueue
    /\ in_use' = txn_extra_in_use(in_use, capacity, size)
    /\ queue' = txn_extra_queue(queue, sched_alive, in_use, capacity, size)
    /\ last' = Call("txn_extra_schedule", [size |-> size], None,
                    txn_extra_tasks(in_use, capacity, size))
    /\ UNCHANGED <<observe_regions, capacity, sched_alive, generation>>
    /\ UNCHANGED conc
    /\ UNCHANGED ext

\* raftstore reports, on thread t, a role change of the local peer of region:
\* the hook returns if the new role is leader and otherwise looks the region
\* up; it returns if the region is not registered
OnRoleChange(t, region, role_change) ==
    /\ pc[t] = "idle"
    /\ pc' = [pc EXCEPT ![t] =
                  IF on_role_change_acts(observe_regions, region, role_change)
                  THEN "hook_schedule" ELSE "idle"]
    /\ loc' = [loc EXCEPT ![t] =
                   IF on_role_change_acts(observe_regions, region, role_change)
                   THEN [NoCall EXCEPT !.region = region,
                                       !.role_change = Some(role_change),
                                       !.ret = is_subscribed(region.id),
                                       !.committed = generation[region.id]]
                   ELSE NoCall]
    /\ last' = [Call(IF on_role_change_acts(observe_regions, region, role_change)
                     THEN "is_subscribed" ELSE "on_role_change",
                     [region |-> region, role_change |-> role_change],
                     IF on_role_change_acts(observe_regions, region, role_change)
                     THEN is_subscribed(region.id) ELSE None,
                     <<>>)
                    EXCEPT !.registered =
                               registered_at_lookup(region.id, generation[region.id])]
    /\ UNCHANGED <<observe_regions, in_use, capacity, queue, sched_alive, generation>>
    /\ UNCHANGED <<rw_writer, rw_readers, observed, origins, delivered>>
    /\ UNCHANGED ext

\* self.sched.schedule(Task::Deregister(deregister)) of the on_role_change
\* of thread t, and the return of the hook
OnRoleChangeSchedule(t) ==
    /\ pc[t] = "hook_schedule"
    /\ loc[t].role_change # None
    /\ Len(queue) < MaxQueue
    /\ queue' = on_role_change_queue(queue, sched_alive,
                                     looked_up(loc[t].region.id, loc[t].ret),
                                     loc[t].region, loc[t].role_change[1])
    /\ observe_regions' = on_role_change_regions(observe_regions, loc[t].region,
                                                 loc[t].role_change[1])
    /\ pc' = [pc EXCEPT ![t] = "idle"]
    /\ loc' = [loc EXCEPT ![t] = NoCall]
    /\ last' = [Call("on_role_change",
                     [region |-> loc[t].region,
                      role_change |-> loc[t].role_change[1]],
                     None,
                     on_role_change_tasks(looked_up(loc[t].region.id, loc[t].ret),
                                          loc[t].region, loc[t].role_change[1]))
                    EXCEPT !.registered =
                               registered_at_lookup(loc[t].region.id,
                                                    loc[t].committed)]
    /\ UNCHANGED <<in_use, capacity, sched_alive, generation>>
    /\ UNCHANGED <<rw_writer, rw_readers, observed, origins, delivered>>
    /\ UNCHANGED ext

\* raftstore reports, on thread t, a change of region: the hook returns if
\* the event is not one it matches and otherwise looks the region up; it
\* returns if the region is not registered
OnRegionChanged(t, region, event) ==
    /\ pc[t] = "idle"
    /\ pc' = [pc EXCEPT ![t] =
                  IF on_region_changed_acts(observe_regions, region, event)
                  THEN "hook_schedule" ELSE "idle"]
    /\ loc' = [loc EXCEPT ![t] =
                   IF on_region_changed_acts(observe_regions, region, event)
                   THEN [NoCall EXCEPT !.region = region,
                                       !.event = Some(event),
                                       !.ret = is_subscribed(region.id),
                                       !.committed = generation[region.id]]
                   ELSE NoCall]
    /\ last' = [Call(IF on_region_changed_acts(observe_regions, region, event)
                     THEN "is_subscribed" ELSE "on_region_changed",
                     [region |-> region, event |-> event],
                     IF on_region_changed_acts(observe_regions, region, event)
                     THEN is_subscribed(region.id) ELSE None,
                     <<>>)
                    EXCEPT !.registered =
                               registered_at_lookup(region.id, generation[region.id])]
    /\ UNCHANGED <<observe_regions, in_use, capacity, queue, sched_alive, generation>>
    /\ UNCHANGED <<rw_writer, rw_readers, observed, origins, delivered>>
    /\ UNCHANGED ext

\* self.sched.schedule(Task::Deregister(deregister)) of the on_region_changed
\* of thread t, and the return of the hook
OnRegionChangedSchedule(t) ==
    /\ pc[t] = "hook_schedule"
    /\ loc[t].event # None
    /\ Len(queue) < MaxQueue
    /\ queue' = on_region_changed_queue(queue, sched_alive,
                                        looked_up(loc[t].region.id, loc[t].ret),
                                        loc[t].region, loc[t].event[1])
    /\ observe_regions' = on_region_changed_regions(observe_regions, loc[t].region,
                                                    loc[t].event[1])
    /\ pc' = [pc EXCEPT ![t] = "idle"]
    /\ loc' = [loc EXCEPT ![t] = NoCall]
    /\ last' = [Call("on_region_changed",
                     [region |-> loc[t].region, event |-> loc[t].event[1]],
                     None,
                     on_region_changed_tasks(looked_up(loc[t].region.id, loc[t].ret),
                                             loc[t].region, loc[t].event[1]))
                    EXCEPT !.registered =
                               registered_at_lookup(loc[t].region.id,
                                                    loc[t].committed)]
    /\ UNCHANGED <<in_use, capacity, sched_alive, generation>>
    /\ UNCHANGED <<rw_writer, rw_readers, observed, origins, delivered>>
    /\ UNCHANGED ext

\* the consumer receives the task at the head of the channel and handles it:
\* a Deregister stops the capture it names, the other tasks give their bytes back
Consume ==
    /\ queue # <<>>
    /\ LET task == Head(queue)
       IN  /\ queue' = Tail(queue)
           /\ in_use' = free(in_use, task_size(task))
           /\ observe_regions' =
                  IF task.kind = "Deregister"
                  THEN unsubscribe_region_map(observe_regions, task.region_id,
                                              task.observe_id)
                  ELSE observe_regions
           /\ generation' =
                  IF task.kind = "Deregister"
                  THEN Unsubscribed(task.region_id, task.observe_id)
                  ELSE generation
           /\ last' = Call("consume", [task |-> task],
                           IF task.kind = "Deregister"
                           THEN unsubscribe_region_ret(observe_regions, task.region_id,
                                                       task.observe_id)
                           ELSE None,
                           <<>>)
    /\ UNCHANGED <<capacity, sched_alive>>
    /\ UNCHANGED conc
    /\ UNCHANGED ext

\* the consumer stops: the channel is closed and what it held is dropped
Shutdown ==
    /\ sched_alive
    /\ sched_alive' = FALSE
    /\ queue' = <<>>
    /\ last' = Call("shutdown", NoArgs, None, <<>>)
    /\ UNCHANGED <<observe_regions, in_use, capacity, generation>>
    /\ UNCHANGED conc
    /\ UNCHANGED ext

\* CdcObserver::new over a MemoryQuota::new(capacity), capacity among caps
InitIn(caps) ==
    /\ observe_regions = {}
    /\ in_use = 0
    /\ capacity \in caps
    /\ queue = <<>>
    /\ sched_alive = TRUE
    /\ generation = [r \in Regions |-> None]
    /\ rw_writer = 0
    /\ rw_readers = {}
    /\ pc = [t \in Threads |-> "idle"]
    /\ loc = [t \in Threads |-> NoCall]
    /\ observed = [t \in Threads |-> <<>>]
    /\ origins = <<>>
    /\ delivered = <<>>
    /\ engine = [data |-> 0, snapshots |-> 0, compacted |-> <<>>]
    /\ statistics = [write_over_seek_bound |-> 0, last_write_over_seek_bound |-> 0]
    /\ issued = {}
    /\ returned = [id \in ObserveIds |-> 0]
    /\ last = [op |-> "new", args |-> NoArgs, ret |-> None, sent |-> <<>>,
               registered |-> {},
               pre |-> [observe_regions |-> {}, in_use |-> 0, queue |-> <<>>,
                        generation |-> [r \in Regions |-> None]]]

Init == InitIn(Capacities)

Next ==
    \/ \E r \in Regions, id \in ObserveIds : SubscribeRegion(r, id)
    \/ \E r \in Regions, id \in ObserveIds : UnsubscribeRegion(r, id)
    \/ \E t \in HookThreads, ml \in Levels, cbs \in FlushInputs :
           OnFlushAppliedCmdBatch(t, ml, cbs)
    \/ \E t \in HookThreads : OnFlushAllocForce(t)
    \/ \E t \in HookThreads : OnFlushSchedule(t)
    \/ \E size \in TxnExtraSizes : TxnExtraSchedule(size)
    \/ \E t \in HookThreads, region \in CoreRegionDescs, rc \in CoreRoleChanges :
           OnRoleChange(t, region, rc)
    \/ \E t \in HookThreads : OnRoleChangeSchedule(t)
    \/ \E t \in HookThreads, region \in CoreRegionDescs, ev \in RegionChangeEvents :
           OnRegionChanged(t, region, ev)
    \/ \E t \in HookThreads : OnRegionChangedSchedule(t)
    \/ Consume
    \/ Shutdown

Spec == Init /\ [][Next]_vars

(* The registry and the deregistration path alone: the owner, the role and *)
(* region hooks and the consumer.  The hooks are driven with the events of *)
(* HookRoleChanges and HookRegionEvents, of region 1; the owner and the    *)
(* consumer act on both regions.                                           *)
RegistryInit == InitIn({MaxInUse})

RegistryNext ==
    \/ \E r \in Regions, id \in ObserveIds : SubscribeRegion(r, id)
    \/ \E r \in Regions, id \in ObserveIds : UnsubscribeRegion(r, id)
    \/ \E t \in HookThreads, region \in CoreRegionDescs, rc \in HookRoleChanges :
           region.id = 1 /\ OnRoleChange(t, region, rc)
    \/ \E t \in HookThreads : OnRoleChangeSchedule(t)
    \/ \E t \in HookThreads, region \in CoreRegionDescs, ev \in HookRegionEvents :
           region.id = 1 /\ OnRegionChanged(t, region, ev)
    \/ \E t \in HookThreads : OnRegionChangedSchedule(t)
    \/ Consume
    \/ Shutdown

RegistrySpec == RegistryInit /\ [][RegistryNext]_vars

(* The quota path alone: the flush hook, the transaction layer's hints and *)
(* the consumer.                                                           *)
FlushNext ==
    \/ \E t \in HookThreads, ml \in Levels, cbs \in FlushInputs :
           OnFlushAppliedCmdBatch(t, ml, cbs)
    \/ \E t \in HookThreads : OnFlushAllocForce(t)
    \/ \E t \in HookThreads : OnFlushSchedule(t)
    \/ \E size \in TxnExtraSizes : TxnExtraSchedule(size)
    \/ Consume
    \/ Shutdown

FlushSpec == Init /\ [][FlushNext]_vars

(* The role hook alone, over every role change and both peer lists: the    *)
(* owner, on_role_change and the consumer.  The role changes arrive when   *)
(* the consumer has caught up with the channel.                            *)
RoleNext ==
    \/ \E r \in Regions, id \in ObserveIds : SubscribeRegion(r, id)
    \/ \E r \in Regions, id \in ObserveIds : UnsubscribeRegion(r, id)
    \/ \E t \in HookThreads, region \in RegionDescs, rc \in RoleChanges :
           queue = <<>> /\ OnRoleChange(t, region, rc)
    \/ \E t \in HookThreads : OnRoleChangeSchedule(t)
    \/ Consume
    \/ Shutdown

RoleSpec == RegistryInit /\ [][RoleNext]_vars

---------------------------------------------------------------------------
(* The registry under concurrent callers.  A call is the steps between its *)
(* synchronisation points: taking the guard of the RwLock, each access of  *)
(* the HashMap under it, dropping the guard.  HashMap::insert is two steps *)
(* (the slot of the key is vacated, then filled), so that a state exists   *)
(* in which the map is half written.                                       *)

\* a write() that does not wait for the readers to leave
rwlock_write_free_ignores_readers(writer, readers) == writer = 0

\* RwLock::write returns once no guard is held
rwlock_write_free(writer, readers) == writer = 0 /\ readers = {}

\* RwLock::read returns once no write guard is held
rwlock_read_free(writer, readers) == writer = 0

seq_state == <<in_use, capacity, queue, sched_alive, last>>
flush_history == <<observed, origins, delivered>>

\* thread t calls subscribe_region(region_id, observe_id)
CallSubscribeRegion(t, region_id, observe_id) ==
    /\ pc[t] = "idle"
    /\ pc' = [pc EXCEPT ![t] = "subscribe_write"]
    /\ loc' = [loc EXCEPT ![t] = [NoCall EXCEPT !.region_id = region_id,
                                                !.observe_id = observe_id]]
    /\ UNCHANGED <<observe_regions, generation, rw_writer, rw_readers>>
    /\ UNCHANGED <<seq_state, flush_history>>
    /\ UNCHANGED ext

\* thread t calls unsubscribe_region(region_id, observe_id)
CallUnsubscribeRegion(t, region_id, observe_id) ==
    /\ pc[t] = "idle"
    /\ pc' = [pc EXCEPT ![t] = "unsubscribe_write"]
    /\ loc' = [loc EXCEPT ![t] = [NoCall EXCEPT !.region_id = region_id,
                                                !.observe_id = observe_id]]
    /\ UNCHANGED <<observe_regions, generation, rw_writer, rw_readers>>
    /\ UNCHANGED <<seq_state, flush_history>>
    /\ UNCHANGED ext

\* thread t calls is_subscribed(region_id)
CallIsSubscribed(t, region_id) ==
    /\ pc[t] = "idle"
    /\ pc' = [pc EXCEPT ![t] = "is_subscribed_read"]
    /\ loc' = [loc EXCEPT ![t] = [NoCall EXCEPT !.region_id = region_id]]
    /\ UNCHANGED <<observe_regions, generation, rw_writer, rw_readers>>
    /\ UNCHANGED <<seq_state, flush_history>>
    /\ UNCHANGED ext

\* observe_regions.write().unwrap() of subscribe_region and unsubscribe_region
AcquireWrite(t) ==
    /\ pc[t] \in {"subscribe_write", "unsubscribe_write"}
    /\ rwlock_write_free(rw_writer, rw_readers)
    /\ rw_writer' = t
    /\ pc' = [pc EXCEPT ![t] = IF pc[t] = "subscribe_write"
                               THEN "subscribe_insert" ELSE "unsubscribe_get"]
    /\ UNCHANGED <<observe_regions, generation, rw_readers, loc>>
    /\ UNCHANGED <<seq_state, flush_history>>
    /\ UNCHANGED ext

\* insert(region_id, observe_id), first half: the previous value is taken out
SubscribeVacate(t) ==
    /\ pc[t] = "subscribe_insert"
    /\ loc' = [loc EXCEPT ![t].ret = HashMapGet(observe_regions, loc[t].region_id)]
    /\ observe_regions' = HashMapRemove(observe_regions, loc[t].region_id)
    /\ pc' = [pc EXCEPT ![t] = "subscribe_store"]
    /\ UNCHANGED <<generation, rw_writer, rw_readers>>
    /\ UNCHANGED <<seq_state, flush_history>>
    /\ UNCHANGED ext

\* insert(region_id, observe_id), second half: the new value is stored
SubscribeStore(t) ==
    /\ pc[t] = "subscribe_store"
    /\ observe_regions' =
           HashMapInsert(observe_regions, loc[t].region_id, loc[t].observe_id)
    /\ generation' = Subscribed(loc[t].region_id, loc[t].observe_id)
    /\ pc' = [pc EXCEPT ![t] = "write_unlock"]
    /\ UNCHANGED <<rw_writer, rw_readers, loc>>
    /\ UNCHANGED <<seq_state, flush_history>>
    /\ UNCHANGED ext

\* regions.get(&region_id) and the comparison of unsubscribe_region
UnsubscribeGet(t) ==
    /\ pc[t] = "unsubscribe_get"
    /\ pc' = [pc EXCEPT ![t] =
                  IF unsubscribe_region_hit(observe_regions, loc[t].region_id,
                                            loc[t].observe_id)
                  THEN "unsubscribe_remove" ELSE "write_unlock"]
    /\ UNCHANGED <<observe_regions, generation, rw_writer, rw_readers, loc>>
    /\ UNCHANGED <<seq_state, flush_history>>
    /\ UNCHANGED ext

\* regions.remove(&region_id) of unsubscribe_region
UnsubscribeRemove(t) ==
    /\ pc[t] = "unsubscribe_remove"
    /\ loc' = [loc EXCEPT ![t].ret = HashMapGet(observe_regions, loc[t].region_id)]
    /\ observe_regions' = HashMapRemove(observe_regions, loc[t].region_id)
    /\ generation' = Unsubscribed(loc[t].region_id, loc[t].observe_id)
    /\ pc' = [pc EXCEPT ![t] = "write_unlock"]
    /\ UNCHANGED <<rw_writer, rw_readers>>
    /\ UNCHANGED <<seq_state, flush_history>>
    /\ UNCHANGED ext

\* the write guard is dropped and the call returns
ReleaseWrite(t) ==
    /\ pc[t] = "write_unlock"
    /\ rw_writer' = 0
    /\ pc' = [pc EXCEPT ![t] = "idle"]
    /\ UNCHANGED <<observe_regions, generation, rw_readers, loc>>
    /\ UNCHANGED <<seq_state, flush_history>>
    /\ UNCHANGED ext

\* observe_regions.read().unwrap() of is_subscribed
AcquireRead(t) ==
    /\ pc[t] = "is_subscribed_read"
    /\ rwlock_read_free(rw_writer, rw_readers)
    /\ rw_readers' = rw_readers \cup {t}
    /\ pc' = [pc EXCEPT ![t] = "is_subscribed_get"]
    /\ UNCHANGED <<observe_regions, generation, rw_writer, loc>>
    /\ UNCHANGED <<seq_state, flush_history>>
    /\ UNCHANGED ext

\* get(&region_id).cloned() of is_subscribed; committed is what the calls that
\* have completed their write left for the region
IsSubscribedGet(t) ==
    /\ pc[t] = "is_subscribed_get"
    /\ loc' = [loc EXCEPT ![t].ret = is_subscribed(loc[t].region_id),
                          ![t].committed = generation[loc[t].region_id]]
    /\ pc' = [pc EXCEPT ![t] = "read_unlock"]
    /\ UNCHANGED <<observe_regions, generation, rw_writer, rw_readers>>
    /\ UNCHANGED <<seq_state, flush_history>>
    /\ UNCHANGED ext

\* the read guard is dropped and the call returns
ReleaseRead(t) ==
    /\ pc[t] = "read_unlock"
    /\ rw_readers' = rw_readers \ {t}
    /\ pc' = [pc EXCEPT ![t] = "idle"]
    /\ UNCHANGED <<observe_regions, generation, rw_writer, loc>>
    /\ UNCHANGED <<seq_state, flush_history>>
    /\ UNCHANGED ext

ConcRegistryNext ==
    \/ \E t \in Threads, r \in Regions, id \in ObserveIds :
           CallSubscribeRegion(t, r, id)
    \/ \E t \in Threads, r \in Regions, id \in ObserveIds :
           CallUnsubscribeRegion(t, r, id)
    \/ \E t \in Threads, r \in Regions : CallIsSubscribed(t, r)
    \/ \E t \in Threads : AcquireWrite(t)
    \/ \E t \in Threads : SubscribeVacate(t)
    \/ \E t \in Threads : SubscribeStore(t)
    \/ \E t \in Threads : UnsubscribeGet(t)
    \/ \E t \in Threads : UnsubscribeRemove(t)
    \/ \E t \in Threads : ReleaseWrite(t)
    \/ \E t \in Threads : AcquireRead(t)
    \/ \E t \in Threads : IsSubscribedGet(t)
    \/ \E t \in Threads : ReleaseRead(t)

ConcRegistrySpec == RegistryInit /\ [][ConcRegistryNext]_vars

---------------------------------------------------------------------------
(* The flush hook under concurrent apply threads.  Each thread flushes one *)
(* event after the other; the hook's steps are its synchronisation points: *)
(* the snapshot of the engine, MemoryQuota::alloc_force, then              *)
(* Scheduler::schedule.  The consumer receives from the other end of the   *)
(* channel.                                                                *)

MaxFlushes == 2

\* the flushes the apply threads are given: <<max_level, cmd_batches>>
ConcFlushInputs ==
    { <<All, <<CmdBatch(1, All, <<1>>)>>>>,
      <<All, <<CmdBatch(2, All, <<2, 1>>), CmdBatch(4, LockRelated, <<1>>),
               CmdBatch(1, All, <<1>>)>>>>,
      <<All, <<CmdBatch(3, All, <<>>)>>>>,
      <<LockRelated, <<CmdBatch(2, All, <<2, 1>>)>>>> }

registry_state == <<observe_regions, generation, rw_writer, rw_readers>>

\* apply thread t enters the hook with its next flush: the assertion, the
\* early returns and the filter touch nothing shared; past them the hook
\* takes the snapshot of the engine
CallFlush(t, max_level, cmd_batches) ==
    /\ pc[t] = "idle"
    /\ Len(observed[t]) < MaxFlushes
    /\ observed' = [observed EXCEPT ![t] =
                        Append(@, [max_level |-> max_level,
                                   cmd_batches |-> cmd_batches])]
    /\ loc' = [loc EXCEPT ![t] = [NoCall EXCEPT !.max_level = max_level,
                                                !.cmd_batches = cmd_batches]]
    /\ engine' = flush_engine(max_level, cmd_batches, engine)
    /\ pc' = [pc EXCEPT ![t] = flush_entry(max_level, cmd_batches)]
    /\ UNCHANGED <<in_use, capacity, queue, sched_alive, last, origins, delivered>>
    /\ UNCHANGED registry_state
    /\ UNCHANGED <<issued, returned, statistics>>

\* self.memory_quota.alloc_force(size)
FlushAlloc(t) ==
    /\ pc[t] = "flush_alloc"
    /\ in_use' = flush_in_use(in_use, loc[t].max_level, loc[t].cmd_batches)
    /\ pc' = [pc EXCEPT ![t] = "flush_schedule"]
    /\ UNCHANGED <<capacity, queue, sched_alive, last, loc, flush_history>>
    /\ UNCHANGED registry_state
    /\ UNCHANGED ext

\* self.sched.schedule(Task::MultiBatch { .. }), and the return of the hook
FlushSchedule(t) ==
    /\ pc[t] = "flush_schedule"
    /\ queue' = flush_queue(queue, sched_alive, loc[t].max_level, loc[t].cmd_batches)
    /\ origins' = origins \o [i \in 1..(Len(queue') - Len(queue)) |->
                                  <<t, Len(observed[t])>>]
    /\ pc' = [pc EXCEPT ![t] = "idle"]
    /\ UNCHANGED <<in_use, capacity, sched_alive, last, loc, observed, delivered>>
    /\ UNCHANGED registry_state
    /\ UNCHANGED ext

\* the consumer receives the task at the head of the channel and, done with
\* it, gives its bytes back
ConcConsume ==
    /\ queue # <<>>
    /\ queue' = Tail(queue)
    /\ origins' = Tail(origins)
    /\ delivered' = Append(delivered, <<Head(origins), Head(queue)>>)
    /\ in_use' = free(in_use, task_size(Head(queue)))
    /\ UNCHANGED <<capacity, sched_alive, last, pc, loc, observed>>
    /\ UNCHANGED registry_state
    /\ UNCHANGED ext

\* the consumer stops: the channel is closed and what it held is dropped
ConcShutdown ==
    /\ sched_alive
    /\ sched_alive' = FALSE
    /\ queue' = <<>>
    /\ origins' = <<>>
    /\ UNCHANGED <<in_use, capacity, last, pc, loc, observed, delivered>>
    /\ UNCHANGED registry_state
    /\ UNCHANGED ext

ConcFlushNext ==
    \/ \E t \in Threads, call \in ConcFlushInputs : CallFlush(t, call[1], call[2])
    \/ \E t \in Threads : FlushAlloc(t)
    \/ \E t \in Threads : FlushSchedule(t)
    \/ ConcConsume
    \/ ConcShutdown

ConcFlushSpec == RegistryInit /\ [][ConcFlushNext]_vars

(* The three hooks together with the owner and the consumer: the apply     *)
(* pipeline flushes the events of ConcFlushInputs, and the role and region *)
(* events arrive when the consumer has caught up with the channel.         *)
HooksNext ==
    \/ \E r \in Regions, id \in ObserveIds : SubscribeRegion(r, id)
    \/ \E r \in Regions, id \in ObserveIds : UnsubscribeRegion(r, id)
    \/ \E t \in HookThreads, call \in ConcFlushInputs :
           OnFlushAppliedCmdBatch(t, call[1], call[2])
    \/ \E t \in HookThreads : OnFlushAllocForce(t)
    \/ \E t \in HookThreads : OnFlushSchedule(t)
    \/ \E t \in HookThreads, region \in CoreRegionDescs, rc \in CoreRoleChanges :
           queue = <<>> /\ OnRoleChange(t, region, rc)
    \/ \E t \in HookThreads : OnRoleChangeSchedule(t)
    \/ \E t \in HookThreads, region \in CoreRegionDescs, ev \in RegionChangeEvents :
           queue = <<>> /\ OnRegionChanged(t, region, ev)
    \/ \E t \in HookThreads : OnRegionChangedSchedule(t)
    \/ Consume
    \/ Shutdown

HooksSpec == RegistryInit /\ [][HooksNext]_vars

---------------------------------------------------------------------------
(* The delivery of the flushes, with its history: the apply pipeline       *)
(* flushes one event after the other while the owner subscribes and        *)
(* unsubscribes and role and region events arrive, and the consumer        *)
(* receives until it stops (ConcShutdown: the channel is closed, what it   *)
(* held is dropped and every later schedule call is rejected); a role or   *)
(* region event arrives when the Deregister of the one before it has been  *)
(* handled or dropped.  The hooks run on one thread, a step                *)
(* for each access to what they share (FlushAlloc, FlushSchedule and       *)
(* HookSchedule are the steps after the first).                            *)
(* observed[1] is the flushes so far, origins tells which flush a          *)
(* MultiBatch of the channel comes from, delivered is the MultiBatches the *)
(* consumer received.                                                      *)

\* the owner starts capturing region_id under observe_id
DeliverySubscribe(region_id, observe_id) ==
    /\ observe_regions' = subscribe_region_map(observe_regions, region_id, observe_id)
    /\ generation' = Subscribed(region_id, observe_id)
    /\ UNCHANGED <<in_use, capacity, queue, sched_alive, last>>
    /\ UNCHANGED conc
    /\ UNCHANGED ext

\* the owner stops capturing region_id, naming the generation it stops
DeliveryUnsubscribe(region_id, observe_id) ==
    /\ observe_regions' = unsubscribe_region_map(observe_regions, region_id, observe_id)
    /\ generation' = Unsubscribed(region_id, observe_id)
    /\ UNCHANGED <<in_use, capacity, queue, sched_alive, last>>
    /\ UNCHANGED conc
    /\ UNCHANGED ext

\* raftstore reports, on thread t, a role change of the local peer of region:
\* the hook returns if the new role is leader and otherwise looks the region
\* up; it returns if the region is not registered
DeliveryRoleChange(t, region, role_change) ==
    /\ pc[t] = "idle"
    /\ pc' = [pc EXCEPT ![t] =
                  IF on_role_change_acts(observe_regions, region, role_change)
                  THEN "hook_schedule" ELSE "idle"]
    /\ loc' = [loc EXCEPT ![t] =
                   IF on_role_change_acts(observe_regions, region, role_change)
                   THEN [NoCall EXCEPT !.region = region,
                                       !.role_change = Some(role_change),
                                       !.ret = is_subscribed(region.id),
                                       !.committed = generation[region.id]]
                   ELSE NoCall]
    /\ UNCHANGED <<observe_regions, generation, rw_writer, rw_readers>>
    /\ UNCHANGED <<seq_state, flush_history, ext>>

\* raftstore reports, on thread t, a change of region: the hook returns if
\* the event is not one it matches and otherwise looks the region up; it
\* returns if the region is not registered
DeliveryRegionChanged(t, region, event) ==
    /\ pc[t] = "idle"
    /\ pc' = [pc EXCEPT ![t] =
                  IF on_region_changed_acts(observe_regions, region, event)
                  THEN "hook_schedule" ELSE "idle"]
    /\ loc' = [loc EXCEPT ![t] =
                   IF on_region_changed_acts(observe_regions, region, event)
                   THEN [NoCall EXCEPT !.region = region,
                                       !.event = Some(event),
                                       !.ret = is_subscribed(region.id),
                                       !.committed = generation[region.id]]
                   ELSE NoCall]
    /\ UNCHANGED <<observe_regions, generation, rw_writer, rw_readers>>
    /\ UNCHANGED <<seq_state, flush_history, ext>>

\* the consumer receives the task at the head of the channel and handles it
DeliveryConsume ==
    /\ queue # <<>>
    /\ LET task == Head(queue)
       IN  /\ queue' = Tail(queue)
           /\ origins' = Tail(origins)
           /\ delivered' = IF task.kind = "MultiBatch"
                           THEN Append(delivered, <<Head(origins), task>>)
                           ELSE delivered
           /\ in_use' = free(in_use, task_size(task))
           /\ observe_regions' =
                  IF task.kind = "Deregister"
                  THEN unsubscribe_region_map(observe_regions, task.region_id,
                                              task.observe_id)
                  ELSE observe_regions
           /\ generation' =
                  IF task.kind = "Deregister"
                  THEN Unsubscribed(task.region_id, task.observe_id)
                  ELSE generation
    /\ UNCHANGED <<capacity, sched_alive, last>>
    /\ UNCHANGED <<rw_writer, rw_readers, pc, loc, observed>>
    /\ UNCHANGED ext

\* the max_level raftstore passes with cmd_batches: the highest of their levels
RECURSIVE flush_max_level(_)
flush_max_level(cmd_batches) ==
    IF cmd_batches = <<>> THEN LevelNone
    ELSE LET rest == flush_max_level(Tail(cmd_batches))
         IN  IF Head(cmd_batches).level > rest THEN Head(cmd_batches).level ELSE rest

\* the flushes of the apply pipeline: <<max_level, cmd_batches>>
DeliveryFlushInputs ==
    { call \in ConcFlushInputs \cup {<<LockRelated, <<CmdBatch(4, LockRelated, <<1>>)>>>>} :
          call[1] = flush_max_level(call[2]) }

\* the consumer has handled every Deregister sent so far
NoDeregisterPending == \A i \in 1..Len(queue) : queue[i].kind # "Deregister"

(* The deregistration path with a consumer that keeps receiving: the       *)
(* owner, the role and region hooks and the consumer, which is not starved *)
(* and does not stop.                                                      *)
LiveNext ==
    \/ \E r \in Regions, id \in ObserveIds : SubscribeRegion(r, id)
    \/ \E r \in Regions, id \in ObserveIds : UnsubscribeRegion(r, id)
    \/ \E t \in HookThreads, region \in CoreRegionDescs, rc \in CoreRoleChanges :
           NoDeregisterPending /\ OnRoleChange(t, region, rc)
    \/ \E t \in HookThreads : OnRoleChangeSchedule(t)
    \/ \E t \in HookThreads, region \in CoreRegionDescs, ev \in RegionChangeEvents :
           NoDeregisterPending /\ OnRegionChanged(t, region, ev)
    \/ \E t \in HookThreads : OnRegionChangedSchedule(t)
    \/ Consume

LiveSpec == RegistryInit /\ [][LiveNext]_vars /\ WF_vars(Consume)

---------------------------------------------------------------------------
(* The flush hook and the storage engine.  The hook takes a snapshot of    *)
(* the engine (engine.snapshot(), observer.rs:124) and moves it into the   *)
(* closure of the task; the consumer evaluates the closure later, while    *)
(* writes and garbage collection go on changing the engine.  The steps of  *)
(* the hook are its accesses to what it shares: the engine (all the hook   *)
(* does before it is on its own arguments), then the quota, then the       *)
(* scheduler.  A thread whose assertion fails unwinds and                  *)
(* makes no further call.  One apply thread runs the hook here; the writer *)
(* of the engine and the consumer run beside it.                           *)

MaxVersion == 2

\* a closure that reads the engine when it is built into the task
flush_old_value_cb_live(snapshot, eng) == Some(engine_snapshot(eng))

\* the snapshot the closure get_old_value carries: the one taken at line 124,
\* moved into it
flush_old_value_cb(snapshot, eng) == snapshot

\* old_value::get_old_value(&snapshot, ..): what the snapshot holds
get_old_value(snapshot) == snapshot.data

\* Task::MultiBatch { multi, old_value_cb }, with the snapshot of its closure
MultiBatchCb(multi, old_value_cb) ==
    [kind |-> "MultiBatch", multi |-> multi, old_value_cb |-> old_value_cb]

\* the tasks of the hook, each with the closure
flush_tasks_cb(max_level, cmd_batches, old_value_cb) ==
    [i \in 1..Len(flush_tasks(max_level, cmd_batches)) |->
         MultiBatchCb(flush_tasks(max_level, cmd_batches)[i].multi, old_value_cb)]

\* the apply thread that runs the hook
ApplyThreads == {1}

\* the flushes the hook is driven with, the empty list among them
ApplyFlushInputs == ConcFlushInputs \cup {<<LevelNone, <<>>>>}

\* apply thread t enters the hook with its next flush and runs it as far as
\* its snapshot; at_flush is what the engine holds at that moment
ApplyFlush(t, max_level, cmd_batches) ==
    /\ pc[t] = "idle"
    /\ Len(observed[t]) < MaxFlushes
    /\ observed' = [observed EXCEPT ![t] =
                        Append(@, [max_level |-> max_level,
                                   cmd_batches |-> cmd_batches,
                                   at_flush |-> engine.data])]
    /\ loc' = [loc EXCEPT ![t] =
                   [NoCall EXCEPT !.max_level = max_level,
                                  !.cmd_batches = cmd_batches,
                                  !.snapshot = flush_snapshot(max_level, cmd_batches,
                                                              engine)]]
    /\ engine' = flush_engine(max_level, cmd_batches, engine)
    /\ pc' = [pc EXCEPT ![t] = flush_entry(max_level, cmd_batches)]
    /\ UNCHANGED <<in_use, capacity, queue, sched_alive, last, origins, delivered>>
    /\ UNCHANGED <<registry_state, issued, returned, statistics>>

\* self.sched.schedule(Task::MultiBatch { multi, old_value_cb }), and the
\* return of the hook
FlushScheduleCb(t) ==
    /\ pc[t] = "flush_schedule"
    /\ queue' = schedule_all(queue, sched_alive,
                             flush_tasks_cb(loc[t].max_level, loc[t].cmd_batches,
                                            flush_old_value_cb(loc[t].snapshot,
                                                               engine)))
    /\ origins' = origins \o [i \in 1..(Len(queue') - Len(queue)) |->
                                  <<t, Len(observed[t])>>]
    /\ pc' = [pc EXCEPT ![t] = "idle"]
    /\ UNCHANGED <<in_use, capacity, sched_alive, last, loc, observed, delivered>>
    /\ UNCHANGED <<registry_state, ext>>

\* a write or a garbage collection changes what the engine holds
EngineWrite ==
    /\ engine.data < MaxVersion
    /\ engine' = [engine EXCEPT !.data = @ + 1]
    /\ UNCHANGED <<in_use, capacity, queue, sched_alive, last, issued, returned,
                   statistics>>
    /\ UNCHANGED <<registry_state, pc, loc, flush_history>>

\* the consumer receives the task at the head of the channel, evaluates its
\* closure and gives its bytes back
ApplyConsume ==
    /\ queue # <<>>
    /\ queue' = Tail(queue)
    /\ origins' = Tail(origins)
    /\ delivered' = Append(delivered,
                           <<Head(origins), Head(queue),
                             IF Head(queue).old_value_cb = None THEN None
                             ELSE Some(get_old_value(Head(queue).old_value_cb[1]))>>)
    /\ in_use' = free(in_use, task_size(Head(queue)))
    /\ UNCHANGED <<capacity, sched_alive, last, pc, loc, observed>>
    /\ UNCHANGED <<registry_state, ext>>

ApplyNext ==
    \/ \E t \in ApplyThreads, call \in ApplyFlushInputs :
           ApplyFlush(t, call[1], call[2])
    \/ \E t \in ApplyThreads : FlushAlloc(t)
    \/ \E t \in ApplyThreads : FlushScheduleCb(t)
    \/ EngineWrite
    \/ ApplyConsume
    \/ ConcShutdown

ApplySpec == RegistryInit /\ [][ApplyNext]_vars

---------------------------------------------------------------------------
(* The role and region hooks under concurrent callers.  A hook looks the   *)
(* region up with is_subscribed, which takes the read guard, reads the map *)
(* and drops the guard when it returns; with an ObserveId in hand the hook *)
(* builds its Deregister and calls Scheduler::schedule.  One thread of     *)
(* raftstore runs the hooks, a hook being called when the consumer has     *)
(* caught up with the channel; the other thread subscribes and             *)
(* unsubscribes, for the owner and for the consumer.  For each Deregister  *)
(* of the channel, origins holds what the completed writes had left for    *)
(* the region when the hook read the map and when it called schedule:      *)
(* <<at lookup, at schedule>>.  The flush hook runs on the same thread.    *)

\* the flush the hook thread is given: <<max_level, cmd_batches>>
HookFlushInputs == {<<All, <<CmdBatch(1, All, <<1>>)>>>>}

\* a hook that keeps the read guard of its lookup until it returns
hook_readers_guard_kept(readers, t) == readers

\* the read guards after is_subscribed has returned to the hook: the guard of
\* the lookup is a temporary of is_subscribed and is dropped there
hook_readers(readers, t) == readers \ {t}

\* whether the hook whose locals are l goes on to look the region up
hook_looks_up(l) ==
    IF l.role_change # None THEN l.role_change[1].state # "Leader"
    ELSE region_changed_matches(l.event[1])

\* the tasks the hook whose locals are l hands to Scheduler::schedule
hook_tasks(l) ==
    IF l.role_change # None
    THEN on_role_change_tasks(looked_up(l.region.id, l.ret), l.region,
                              l.role_change[1])
    ELSE on_region_changed_tasks(looked_up(l.region.id, l.ret), l.region,
                                 l.event[1])

\* thread t enters on_role_change and goes on to its lookup (a change to
\* leader returns at once, having touched nothing)
CallOnRoleChange(t, region, role_change) ==
    /\ pc[t] = "idle"
    /\ queue = <<>>
    /\ hook_looks_up([NoCall EXCEPT !.role_change = Some(role_change)])
    /\ loc' = [loc EXCEPT ![t] = [NoCall EXCEPT !.region = region,
                                                !.role_change = Some(role_change)]]
    /\ pc' = [pc EXCEPT ![t] = "hook_read"]
    /\ UNCHANGED <<observe_regions, generation, rw_writer, rw_readers>>
    /\ UNCHANGED <<seq_state, flush_history, ext>>

\* thread t enters on_region_changed and goes on to its lookup (an event that
\* does not match returns at once, having touched nothing)
CallOnRegionChanged(t, region, event) ==
    /\ pc[t] = "idle"
    /\ queue = <<>>
    /\ hook_looks_up([NoCall EXCEPT !.event = Some(event)])
    /\ loc' = [loc EXCEPT ![t] = [NoCall EXCEPT !.region = region,
                                                !.event = Some(event)]]
    /\ pc' = [pc EXCEPT ![t] = "hook_read"]
    /\ UNCHANGED <<observe_regions, generation, rw_writer, rw_readers>>
    /\ UNCHANGED <<seq_state, flush_history, ext>>

\* observe_regions.read().unwrap() of the hook's is_subscribed
HookAcquireRead(t) ==
    /\ pc[t] = "hook_read"
    /\ rwlock_read_free(rw_writer, rw_readers)
    /\ rw_readers' = rw_readers \cup {t}
    /\ pc' = [pc EXCEPT ![t] = "hook_get"]
    /\ UNCHANGED <<observe_regions, generation, rw_writer, loc>>
    /\ UNCHANGED <<seq_state, flush_history, ext>>

\* get(&region_id).cloned() of the hook's is_subscribed; committed is what
\* the calls that have completed their write left for the region
HookGet(t) ==
    /\ pc[t] = "hook_get"
    /\ loc' = [loc EXCEPT ![t].ret = is_subscribed(loc[t].region.id),
                          ![t].committed = generation[loc[t].region.id]]
    /\ pc' = [pc EXCEPT ![t] = "hook_unlock"]
    /\ UNCHANGED <<observe_regions, generation, rw_writer, rw_readers>>
    /\ UNCHANGED <<seq_state, flush_history, ext>>

\* is_subscribed returns to the hook, dropping its guard; the hook returns if
\* it got None and otherwise goes on to schedule
HookReleaseRead(t) ==
    /\ pc[t] = "hook_unlock"
    /\ rw_readers' = hook_readers(rw_readers, t)
    /\ pc' = [pc EXCEPT ![t] = IF hook_tasks(loc[t]) = <<>>
                               THEN "idle" ELSE "hook_schedule"]
    /\ loc' = [loc EXCEPT ![t] = IF hook_tasks(loc[t]) = <<>> THEN NoCall ELSE @]
    /\ UNCHANGED <<observe_regions, generation, rw_writer>>
    /\ UNCHANGED <<seq_state, flush_history, ext>>

\* self.sched.schedule(Task::Deregister(deregister)), and the return of the
\* hook
HookSchedule(t) ==
    /\ pc[t] = "hook_schedule"
    /\ queue' = schedule_all(queue, sched_alive, hook_tasks(loc[t]))
    /\ origins' = origins \o
                      [i \in 1..(Len(queue') - Len(queue)) |->
                           <<loc[t].committed, generation[loc[t].region.id]>>]
    /\ loc' = [loc EXCEPT ![t] = NoCall]
    /\ pc' = [pc EXCEPT ![t] = "idle"]
    /\ UNCHANGED <<in_use, capacity, sched_alive, last, observed, delivered>>
    /\ UNCHANGED <<registry_state, ext>>

\* the consumer receives the task at the head of the channel: it gives the
\* bytes of a MultiBatch back; the unsubscribe_region it calls for a
\* Deregister is one of the calls of the other thread
HookConsume ==
    /\ queue # <<>>
    /\ queue' = Tail(queue)
    /\ origins' = Tail(origins)
    /\ in_use' = free(in_use, task_size(Head(queue)))
    /\ UNCHANGED <<capacity, sched_alive, last, pc, loc, observed, delivered>>
    /\ UNCHANGED <<registry_state, ext>>

ConcHooksNext ==
    \/ \E t \in OwnerThreads, r \in Regions, id \in ObserveIds :
           CallSubscribeRegion(t, r, id)
    \/ \E t \in OwnerThreads, r \in Regions, id \in ObserveIds :
           CallUnsubscribeRegion(t, r, id)
    \/ \E t \in HookThreads, region \in CoreRegionDescs, rc \in HookRoleChanges :
           CallOnRoleChange(t, region, rc)
    \/ \E t \in HookThreads, region \in CoreRegionDescs, ev \in HookRegionEvents :
           CallOnRegionChanged(t, region, ev)
    \/ \E t \in OwnerThreads : AcquireWrite(t)
    \/ \E t \in OwnerThreads : SubscribeVacate(t)
    \/ \E t \in OwnerThreads : SubscribeStore(t)
    \/ \E t \in OwnerThreads : UnsubscribeGet(t)
    \/ \E t \in OwnerThreads : UnsubscribeRemove(t)
    \/ \E t \in OwnerThreads : ReleaseWrite(t)
    \/ \E t \in HookThreads : HookAcquireRead(t)
    \/ \E t \in HookThreads : HookGet(t)
    \/ \E t \in HookThreads : HookReleaseRead(t)
    \/ \E t \in HookThreads : HookSchedule(t)
    \/ \E t \in HookThreads, call \in HookFlushInputs :
           queue = <<>> /\ CallFlush(t, call[1], call[2])
    \/ \E t \in HookThreads : FlushAlloc(t)
    \/ \E t \in HookThreads : FlushSchedule(t)
    \/ HookConsume

ConcHooksSpec == RegistryInit /\ [][ConcHooksNext]_vars

(* The delivery of the flushes: the owner, the three hooks in their steps  *)
(* and the consumer, which receives the tasks and may stop at any moment:  *)
(* from then on Scheduler::schedule returns Err, which the hooks only log  *)
(* (observer.rs:138, 169, 198), and what the channel held is dropped.      *)
DeliveryNext ==
    \/ \E r \in Regions, id \in ObserveIds : DeliverySubscribe(r, id)
    \/ \E r \in Regions, id \in ObserveIds : DeliveryUnsubscribe(r, id)
    \/ \E t \in HookThreads, call \in DeliveryFlushInputs :
           CallFlush(t, call[1], call[2])
    \/ \E t \in HookThreads : FlushAlloc(t)
    \/ \E t \in HookThreads : FlushSchedule(t)
    \/ \E t \in HookThreads, region \in CoreRegionDescs, rc \in CoreRoleChanges :
           NoDeregisterPending /\ DeliveryRoleChange(t, region, rc)
    \/ \E t \in HookThreads, region \in CoreRegionDescs, ev \in RegionChangeEvents :
           NoDeregisterPending /\ DeliveryRegionChanged(t, region, ev)
    \/ \E t \in HookThreads : HookSchedule(t)
    \/ DeliveryConsume
    \/ ConcShutdown

DeliverySpec == RegistryInit /\ [][DeliveryNext]_vars

---------------------------------------------------------------------------
(* The registry under an owner that never reuses an ObserveId: every       *)
(* subscribe_region is given an id no subscribe_region was given before    *)
(* (ObserveId::new() draws them from a counter).  issued and returned are  *)
(* the history of the ids.                                                 *)

\* the history of the ids after an unsubscribe_region that returned ret
Returned(ret) ==
    IF ret = None THEN returned
    ELSE [returned EXCEPT ![ret[1]] = @ + 1]

\* the owner starts capturing region_id under an ObserveId never used before
SubscribeFresh(region_id, observe_id) ==
    /\ observe_id \notin issued
    /\ issued' = issued \cup {observe_id}
    /\ observe_regions' = subscribe_region_map(observe_regions, region_id, observe_id)
    /\ last' = Call("subscribe_region",
                    [region_id |-> region_id, observe_id |-> observe_id],
                    subscribe_region_ret(observe_regions, region_id, observe_id),
                    <<>>)
    /\ generation' = Subscribed(region_id, observe_id)
    /\ UNCHANGED <<in_use, capacity, queue, sched_alive, engine, returned, statistics>>
    /\ UNCHANGED conc

\* the owner stops capturing region_id, naming an id it was given or not
UnsubscribeCounted(region_id, observe_id) ==
    /\ observe_regions' = unsubscribe_region_map(observe_regions, region_id, observe_id)
    /\ last' = Call("unsubscribe_region",
                    [region_id |-> region_id, observe_id |-> observe_id],
                    unsubscribe_region_ret(observe_regions, region_id, observe_id),
                    <<>>)
    /\ returned' = Returned(unsubscribe_region_ret(observe_regions, region_id,
                                                   observe_id))
    /\ generation' = Unsubscribed(region_id, observe_id)
    /\ UNCHANGED <<in_use, capacity, queue, sched_alive, engine, issued, statistics>>
    /\ UNCHANGED conc

\* the consumer receives the Deregister at the head of the channel and calls
\* unsubscribe_region with the region and the ObserveId it carries
ConsumeCounted ==
    /\ queue # <<>>
    /\ Head(queue).kind = "Deregister"
    /\ LET task == Head(queue)
           ret == unsubscribe_region_ret(observe_regions, task.region_id,
                                         task.observe_id)
       IN  /\ queue' = Tail(queue)
           /\ observe_regions' = unsubscribe_region_map(observe_regions,
                                                        task.region_id,
                                                        task.observe_id)
           /\ generation' = Unsubscribed(task.region_id, task.observe_id)
           /\ returned' = Returned(ret)
           /\ last' = Call("consume", [task |-> task], ret, <<>>)
    /\ UNCHANGED <<in_use, capacity, sched_alive, engine, issued, statistics>>
    /\ UNCHANGED conc

OnceNext ==
    \/ \E r \in Regions, id \in ObserveIds : SubscribeFresh(r, id)
    \/ \E r \in Regions, id \in ObserveIds : UnsubscribeCounted(r, id)
    \/ \E t \in HookThreads, region \in CoreRegionDescs, rc \in HookRoleChanges :
           OnRoleChange(t, region, rc)
    \/ \E t \in HookThreads : OnRoleChangeSchedule(t)
    \/ \E t \in HookThreads, region \in CoreRegionDescs, ev \in HookRegionEvents :
           OnRegionChanged(t, region, ev)
    \/ \E t \in HookThreads : OnRegionChangedSchedule(t)
    \/ ConsumeCounted

OnceSpec == RegistryInit /\ [][OnceNext]_vars

(* Concurrent flushes with a consumer that holds a task while it handles   *)
(* it: it receives the task at the head of the channel, and gives the      *)
(* bytes back when it is done with it.  delivered records each task        *)
(* received as <<origin, task, released>>.                                 *)

\* the task the consumer is handling, if any
consumer_holds(dlv) == {i \in 1..Len(dlv) : ~dlv[i][3]}

\* the consumer receives the task at the head of the channel
QuotaReceive ==
    /\ queue # <<>>
    /\ consumer_holds(delivered) = {}
    /\ queue' = Tail(queue)
    /\ origins' = Tail(origins)
    /\ delivered' = Append(delivered, <<Head(origins), Head(queue), FALSE>>)
    /\ UNCHANGED <<in_use, capacity, sched_alive, last, pc, loc, observed>>
    /\ UNCHANGED registry_state
    /\ UNCHANGED ext

\* the consumer is done with the task it holds: MemoryQuota::free of its bytes
QuotaRelease ==
    /\ consumer_holds(delivered) # {}
    /\ LET i == CHOOSE k \in consumer_holds(delivered) : TRUE
       IN  /\ in_use' = free(in_use, task_size(delivered[i][2]))
           /\ delivered' = [delivered EXCEPT ![i] = <<@[1], @[2], TRUE>>]
    /\ UNCHANGED <<capacity, queue, sched_alive, last, pc, loc, observed, origins>>
    /\ UNCHANGED registry_state
    /\ UNCHANGED ext

ConcQuotaNext ==
    \/ \E t \in Threads, call \in ConcFlushInputs : CallFlush(t, call[1], call[2])
    \/ \E t \in Threads : FlushAlloc(t)
    \/ \E t \in Threads : FlushSchedule(t)
    \/ QuotaReceive
    \/ QuotaRelease
    \/ ConcShutdown

ConcQuotaSpec == RegistryInit /\ [][ConcQuotaNext]_vars

(* The flush hook as one of the command observers of the coprocessor host: *)
(* the host hands the same list of batches, by mutable reference, to the   *)
(* observer registered first (this one, priority 0) and then to the next.  *)

\* a hook that keeps in the caller's list the batches it forwards only
flush_caller_list_retains(max_level, cmd_batches) ==
    IF max_level < All THEN cmd_batches ELSE flush_filter(cmd_batches)

\* the caller's list after the hook: the hook walks it with iter() and
\* collects clones of the batches it keeps into a list of its own
flush_caller_list(max_level, cmd_batches) == cmd_batches

\* the host calls on_flush_applied_cmd_batch of this observer on thread t:
\* the hook goes as far as its snapshot; if it returns early the host goes
\* on to the next observer
HostFlush(t, max_level, cmd_batches) ==
    /\ pc[t] = "idle"
    /\ Len(observed[t]) < MaxFlushes
    /\ observed' = [observed EXCEPT ![t] =
                        Append(@, [max_level |-> max_level,
                                   cmd_batches |-> cmd_batches])]
    /\ loc' = [loc EXCEPT ![t] =
                   [NoCall EXCEPT !.max_level = max_level,
                                  !.cmd_batches =
                                      flush_caller_list(max_level, cmd_batches)]]
    /\ engine' = flush_engine(max_level, cmd_batches, engine)
    /\ pc' = [pc EXCEPT ![t] =
                  IF flush_entry(max_level, cmd_batches) = "idle"
                  THEN "next_observer"
                  ELSE flush_entry(max_level, cmd_batches)]
    /\ UNCHANGED <<in_use, capacity, queue, sched_alive, last, origins, delivered>>
    /\ UNCHANGED registry_state
    /\ UNCHANGED <<issued, returned, statistics>>

\* self.sched.schedule(Task::MultiBatch { .. }) of the hook, which returns to
\* the host
HostFlushSchedule(t) ==
    /\ pc[t] = "flush_schedule"
    /\ queue' = flush_queue(queue, sched_alive, loc[t].max_level, loc[t].cmd_batches)
    /\ pc' = [pc EXCEPT ![t] = "next_observer"]
    /\ UNCHANGED <<in_use, capacity, sched_alive, last, loc, observed, origins,
                   delivered>>
    /\ UNCHANGED registry_state
    /\ UNCHANGED ext

\* the host calls the command observer registered after this one with the
\* list as the hook left it
HostNextObserver(t) ==
    /\ pc[t] = "next_observer"
    /\ last' = Call("next_cmd_observer",
                    [max_level |-> loc[t].max_level,
                     cmd_batches |-> loc[t].cmd_batches],
                    None, <<>>)
    /\ pc' = [pc EXCEPT ![t] = "idle"]
    /\ UNCHANGED <<in_use, capacity, queue, sched_alive, loc, observed, origins,
                   delivered>>
    /\ UNCHANGED registry_state
    /\ UNCHANGED ext

\* the consumer receives the task at the head of the channel and gives its
\* bytes back
HostConsume ==
    /\ queue # <<>>
    /\ queue' = Tail(queue)
    /\ in_use' = free(in_use, task_size(Head(queue)))
    /\ UNCHANGED <<capacity, sched_alive, last, pc, loc, observed, origins,
                   delivered>>
    /\ UNCHANGED registry_state
    /\ UNCHANGED ext

HostNext ==
    \/ \E t \in ApplyThreads, call \in DeliveryFlushInputs :
           HostFlush(t, call[1], call[2])
    \/ \E t \in ApplyThreads : FlushAlloc(t)
    \/ \E t \in ApplyThreads : HostFlushSchedule(t)
    \/ \E t \in ApplyThreads : HostNextObserver(t)
    \/ HostConsume
    \/ ConcShutdown

HostSpec == RegistryInit /\ [][HostNext]_vars

(* The flush hook next to the registry: the owner subscribes and           *)
(* unsubscribes while the apply pipeline flushes and the consumer gives    *)
(* the bytes back.                                                         *)
FlushRegistryNext ==
    \/ \E r \in Regions, id \in ObserveIds : SubscribeRegion(r, id)
    \/ \E r \in Regions, id \in ObserveIds : UnsubscribeRegion(r, id)
    \/ \E t \in HookThreads, call \in DeliveryFlushInputs :
           OnFlushAppliedCmdBatch(t, call[1], call[2])
    \/ \E t \in HookThreads : OnFlushAllocForce(t)
    \/ \E t \in HookThreads : OnFlushSchedule(t)
    \/ Consume
    \/ Shutdown

FlushRegistrySpec == RegistryInit /\ [][FlushRegistryNext]_vars

---------------------------------------------------------------------------
(* tikv_kv::Statistics::load_data_hint: the hint for reading the default   *)
(* column family, drawn from the write column family's over_seek_bound.    *)
(* The counter is a usize that CfStatistics::add raises with               *)
(* saturating_add; MaxOverSeekBound stands for usize::MAX.                 *)

MaxOverSeekBound == 8

\* LoadDataHint
NearSeek == "NearSeek"
Seek == "Seek"

\* usize::saturating_add
saturating_add(a, b) ==
    IF a + b > MaxOverSeekBound THEN MaxOverSeekBound ELSE a + b

\* Statistics::add, for the write column family's over_seek_bound; the
\* load_data_hint field is not merged
statistics_add(st, other) ==
    [st EXCEPT !.write_over_seek_bound = saturating_add(@, other)]

\* the hint load_data_hint returns
load_data_hint_ret(st) ==
    IF st.write_over_seek_bound # st.last_write_over_seek_bound
    THEN Seek
    ELSE NearSeek

\* a load_data_hint that does not record the value it saw
load_data_hint_stats_forgets(st) == st

\* the statistics after load_data_hint
load_data_hint_stats(st) ==
    [st EXCEPT !.last_write_over_seek_bound = st.write_over_seek_bound]

\* the over_seek_bound counts a Statistics::add brings
OverSeekBoundCounts == {0, 1, 2}

\* the statistics of a finished read are added to these
StatisticsAdd(other) ==
    /\ statistics' = statistics_add(statistics, other)
    /\ UNCHANGED <<observe_regions, in_use, capacity, queue, sched_alive, last,
                   generation, engine, issued, returned>>
    /\ UNCHANGED conc

\* load_data_hint is called; last keeps the counter at the call and at the
\* call before it
LoadDataHint ==
    /\ statistics' = load_data_hint_stats(statistics)
    /\ last' = Call("load_data_hint",
                    [over_seek_bound |-> statistics.write_over_seek_bound,
                     previous |-> IF last.op = "load_data_hint"
                                  THEN last.args.over_seek_bound
                                  ELSE 0],
                    load_data_hint_ret(statistics), <<>>)
    /\ UNCHANGED <<observe_regions, in_use, capacity, queue, sched_alive,
                   generation, engine, issued, returned>>
    /\ UNCHANGED conc

HintNext ==
    \/ \E other \in OverSeekBoundCounts : StatisticsAdd(other)
    \/ LoadDataHint

HintSpec == RegistryInit /\ [][HintNext]_vars

---------------------------------------------------------------------------
(* engine_traits::CompactExt: compact_range and compact_files_in_range,    *)
(* the provided methods that compact the column families of cf_names() one *)
(* after the other with compact_range_cf and compact_files_in_range_cf.    *)

MaxCfs == 3

\* Result<()>
Ok == [kind |-> "Ok"]
Err(e) == [kind |-> "Err", error |-> e]

\* the column families an engine may have
CfNames == {"default", "lock", "write", "raft"}

\* CfNamesExt::cf_names: the column families of an engine, each once
CfNameLists ==
    { cfs \in SeqsUpTo(CfNames, MaxCfs) :
          \A i, j \in 1..Len(cfs) : cfs[i] = cfs[j] => i = j }

\* compact_range_cf and compact_files_in_range_cf of the engine: the
\* compaction of the column families of failing returns an error
compact_cf(cf, failing) == IF cf \in failing THEN Err(cf) ELSE Ok

\* a loop that goes on after a failure and returns the first error
RECURSIVE compact_each_goes_on(_, _)
compact_each_goes_on(cf_names, failing) ==
    IF cf_names = <<>> THEN [ret |-> Ok, compacted |-> <<>>]
    ELSE LET rest == compact_each_goes_on(Tail(cf_names), failing)
         IN  IF compact_cf(Head(cf_names), failing) = Ok
             THEN [ret |-> rest.ret,
                   compacted |-> <<Head(cf_names)>> \o rest.compacted]
             ELSE [ret |-> compact_cf(Head(cf_names), failing),
                   compacted |-> rest.compacted]

\* for cf in self.cf_names() { self.compact_.._cf(cf, ..)?; } Ok(()): what
\* the loop returns and the column families it has compacted
RECURSIVE compact_each(_, _)
compact_each(cf_names, failing) ==
    IF cf_names = <<>> THEN [ret |-> Ok, compacted |-> <<>>]
    ELSE IF compact_cf(Head(cf_names), failing) = Ok
         THEN LET rest == compact_each(Tail(cf_names), failing)
              IN  [ret |-> rest.ret,
                   compacted |-> <<Head(cf_names)>> \o rest.compacted]
         ELSE [ret |-> compact_cf(Head(cf_names), failing), compacted |-> <<>>]

compact_range(cf_names, failing) == compact_each(cf_names, failing)

compact_files_in_range(cf_names, failing) == compact_each(cf_names, failing)

\* compact_range is called on an engine of column families cf_names, where
\* the compaction of those of failing fails
CompactRange(cf_names, failing) ==
    /\ engine' = [engine EXCEPT
                      !.compacted = compact_range(cf_names, failing).compacted]
    /\ last' = Call("compact_range", [cf_names |-> cf_names, failing |-> failing],
                    compact_range(cf_names, failing).ret, <<>>)
    /\ UNCHANGED <<observe_regions, in_use, capacity, queue, sched_alive,
                   generation, issued, returned, statistics>>
    /\ UNCHANGED conc

\* compact_files_in_range is called likewise
CompactFilesInRange(cf_names, failing) ==
    /\ engine' = [engine EXCEPT
                      !.compacted =
                          compact_files_in_range(cf_names, failing).compacted]
    /\ last' = Call("compact_files_in_range",
                    [cf_names |-> cf_names, failing |-> failing],
                    compact_files_in_range(cf_names, failing).ret, <<>>)
    /\ UNCHANGED <<observe_regions, in_use, capacity, queue, sched_alive,
                   generation, issued, returned, statistics>>
    /\ UNCHANGED conc

CompactNext ==
    \/ \E cfs \in CfNameLists, failing \in SUBSET CfNames :
           CompactRange(cfs, failing)
    \/ \E cfs \in CfNameLists, failing \in SUBSET CfNames :
           CompactFilesInRange(cfs, failing)

CompactSpec == RegistryInit /\ [][CompactNext]_vars

---------------------------------------------------------------------------
(* storage::errors: get_error_kind_from_header and get_tag_from_header.    *)
(* A header is an errorpb::Error, here the set of its error fields that    *)
(* are set.                                                                *)

MaxHeaderFields == 2

\* the if / else-if chain of get_error_kind_from_header, in its order: the
\* field tested by has_..() and the ErrorHeaderKind returned
header_chain ==
    <<
       <<"not_leader", "NotLeader">>,
       <<"region_not_found", "RegionNotFound">>,
       <<"key_not_in_region", "KeyNotInRegion">>,
       <<"epoch_not_match", "EpochNotMatch">>,
       <<"server_is_busy", "ServerIsBusy">>,
       <<"stale_command", "StaleCommand">>,
       <<"store_not_match", "StoreNotMatch">>,
       <<"raft_entry_too_large", "RaftEntryTooLarge">>,
       <<"read_index_not_ready", "ReadIndexNotReady">>,
       <<"proposal_in_merging_mode", "ProposalInMergeMode">>,
       <<"data_is_not_ready", "DataNotReady">>,
       <<"region_not_initialized", "RegionNotInitialized">>,
       <<"disk_full", "DiskFull">>,
       <<"recovery_in_progress", "RecoveryInProgress">>,
       <<"flashback_in_progress", "FlashbackInProgress">>,
       <<"bucket_version_not_match", "BucketsVersionNotMatch">>
    >>

\* ErrorHeaderKind::get_str
get_str ==
    ("NotLeader" :> "not_leader") @@
    ("RegionNotFound" :> "region_not_found") @@
    ("KeyNotInRegion" :> "key_not_in_region") @@
    ("EpochNotMatch" :> "epoch_not_match") @@
    ("ServerIsBusy" :> "server_is_busy") @@
    ("StaleCommand" :> "stale_command") @@
    ("StoreNotMatch" :> "store_not_match") @@
    ("RaftEntryTooLarge" :> "raft_entry_too_large") @@
    ("ReadIndexNotReady" :> "read_index_not_ready") @@
    ("ProposalInMergeMode" :> "proposal_in_merge_mode") @@
    ("DataNotReady" :> "data_not_ready") @@
    ("RegionNotInitialized" :> "region_not_initialized") @@
    ("DiskFull" :> "disk_full") @@
    ("RecoveryInProgress" :> "recovery_in_progress") @@
    ("FlashbackInProgress" :> "flashback_in_progress") @@
    ("BucketsVersionNotMatch" :> "buckets_version_not_match") @@
    ("Other" :> "other")

\* a chain that goes on to its end and keeps the last field set
RECURSIVE header_kind_from_last_set(_, _)
header_kind_from_last_set(header, chain) ==
    IF chain = <<>> THEN "Other"
    ELSE IF chain[Len(chain)][1] \in header THEN chain[Len(chain)][2]
    ELSE header_kind_from_last_set(header, SubSeq(chain, 1, Len(chain) - 1))

\* the chain from one test on: the kind of the first field of chain set in
\* header, Other at the end of the chain
RECURSIVE header_kind_from(_, _)
header_kind_from(header, chain) ==
    IF chain = <<>> THEN "Other"
    ELSE IF Head(chain)[1] \in header THEN Head(chain)[2]
    ELSE header_kind_from(header, Tail(chain))

get_error_kind_from_header(header) == header_kind_from(header, header_chain)

get_tag_from_header(header) == get_str[get_error_kind_from_header(header)]

\* the error fields of errorpb::Error the chain tests
HeaderFields == {header_chain[i][1] : i \in 1..Len(header_chain)}

\* the headers: at most MaxHeaderFields of the fields are set
Headers == {h \in SUBSET HeaderFields : Cardinality(h) <= MaxHeaderFields}

\* get_tag_from_header is called with header
GetTagFromHeader(header) ==
    /\ last' = Call("get_tag_from_header", [header |-> header],
                    [kind |-> get_error_kind_from_header(header),
                     tag |-> get_tag_from_header(header)],
                    <<>>)
    /\ UNCHANGED <<observe_regions, in_use, capacity, queue, sched_alive,
                   generation>>
    /\ UNCHANGED conc
    /\ UNCHANGED ext

ErrorsNext == \E header \in Headers : GetTagFromHeader(header)

ErrorsSpec == RegistryInit /\ [][ErrorsNext]_vars

---------------------------------------------------------------------------
(* Properties of the registry *)

\* the ids a registry holds for region r
IdsOf(regions, r) == {e[2] : e \in {x \in regions : x[1] = r}}

\* C1: unsubscribe_region(R, id) removes R's entry if and only if the id stored
\* for R equals id; otherwise (R not registered, or registered under another
\* id) it returns None and the registry is exactly what it was.  So after
\* subscribe(R, A), unsubscribe(R, B) with B # A returns None and the lookup
\* of R still yields A.
C1_UnsubscribeIffSameId ==
    last.op = "unsubscribe_region" =>
        LET r == last.args.region_id
            id == last.args.observe_id
            before == last.pre.observe_regions
        IN  /\ IF <<r, id>> \in before
               THEN /\ last.ret = Some(id)
                    /\ observe_regions = before \ {<<r, id>>}
                    /\ is_subscribed(r) = None
               ELSE /\ last.ret = None
                    /\ observe_regions = before
            /\ \A a \in ObserveIds :
                   (a # id /\ last.pre.generation[r] = Some(a))
                   => (last.ret = None /\ is_subscribed(r) = Some(a))

\* C1, witness: the latest subscribe of R installed A, an unsubscribe naming
\* B # A returned None and A is still what the lookup of R yields
C1_Witness ==
    /\ last.op = "unsubscribe_region"
    /\ last.ret = None
    /\ \E a \in ObserveIds :
           /\ a # last.args.observe_id
           /\ last.pre.generation[last.args.region_id] = Some(a)
           /\ is_subscribed(last.args.region_id) = Some(a)

\* C2: the first unsubscribe_region(R, A) after subscribe_region(R, A), with no
\* subscribe on R in between, returns Some(A), and the lookup of R then yields
\* None.
C2_SubscribeThenUnsubscribe ==
    (/\ last.op = "unsubscribe_region"
     /\ last.pre.generation[last.args.region_id] = Some(last.args.observe_id))
    => (/\ last.ret = Some(last.args.observe_id)
        /\ is_subscribed(last.args.region_id) = None)

\* C2, witness: such an unsubscribe happened and returned the id
C2_Witness ==
    /\ last.op = "unsubscribe_region"
    /\ last.pre.generation[last.args.region_id] = Some(last.args.observe_id)
    /\ last.ret = Some(last.args.observe_id)
    /\ is_subscribed(last.args.region_id) = None

\* C3: subscribe_region(R, id) installs id whatever was registered: it returns
\* the id registered before (None if there was none) and the lookup of R
\* yields id right after it.
C3_SubscribeInstalls ==
    last.op = "subscribe_region" =>
        LET r == last.args.region_id
            id == last.args.observe_id
            before == IdsOf(last.pre.observe_regions, r)
        IN  /\ is_subscribed(r) = Some(id)
            /\ IdsOf(observe_regions, r) = {id}
            /\ (before = {} => last.ret = None)
            /\ \A a \in before : last.ret = Some(a)
            /\ last.ret = last.pre.generation[r]

\* C3, witness: a subscribe replaced another id, and returned it
C3_Witness ==
    /\ last.op = "subscribe_region"
    /\ last.ret # None
    /\ last.ret # Some(last.args.observe_id)
    /\ is_subscribed(last.args.region_id) = Some(last.args.observe_id)

\* C5: when the consumer handles a Deregister carrying (R, A) after R was
\* subscribed again under a newer id B # A, its unsubscribe_region(R, A)
\* returns None and R stays registered under B.
C5_LateUnsubscribeKeepsNewer ==
    (last.op = "consume" /\ last.args.task.kind = "Deregister") =>
        LET r == last.args.task.region_id
            a == last.args.task.observe_id
        IN  \A b \in ObserveIds :
                (b # a /\ last.pre.generation[r] = Some(b))
                => (/\ last.ret = None
                    /\ is_subscribed(r) = Some(b)
                    /\ observe_regions = last.pre.observe_regions)

\* C5, witness: a Deregister of (R, A) was consumed after R was subscribed
\* again under B # A, and B is still registered
C5_Witness ==
    /\ last.op = "consume"
    /\ last.args.task.kind = "Deregister"
    /\ \E b \in ObserveIds :
           /\ b # last.args.task.observe_id
           /\ last.pre.generation[last.args.task.region_id] = Some(b)
           /\ is_subscribed(last.args.task.region_id) = Some(b)

---------------------------------------------------------------------------
(* Properties of the flush hook and of the quota *)

\* the batches of a flush that are of level All and hold a command, in order
RECURSIVE Surviving(_)
Surviving(cbs) ==
    IF cbs = <<>> THEN <<>>
    ELSE LET rest == Surviving(Tail(cbs))
         IN  IF Head(cbs).level = All /\ Len(Head(cbs).cmds) > 0
             THEN <<Head(cbs)>> \o rest
             ELSE rest

\* the bytes of a sequence of batches
RECURSIVE Bytes(_)
Bytes(cbs) ==
    IF cbs = <<>> THEN 0
    ELSE SumSeq(cbs[Len(cbs)].cmds) + Bytes(SubSeq(cbs, 1, Len(cbs) - 1))

\* in the last step a flush whose max_level is All and that has surviving
\* batches made its schedule call and returned
FlushedSurvivors ==
    /\ last.op = "on_flush_applied_cmd_batch"
    /\ last.args.max_level = All
    /\ Surviving(last.args.cmd_batches) # <<>>

\* in the last step a flush made its forced allocation
FlushCharged == last.op = "alloc_force"

\* C6: a flush with N >= 1 surviving batches totalling S bytes adds exactly S
\* to the quota usage and enqueues exactly one task, holding exactly the
\* surviving batches in their original order: it hands that one task to the
\* scheduler, which appends it to the channel unless it rejects it.  The
\* hook adds the S bytes in its alloc_force step and enqueues in its schedule
\* step, which adds no byte more.
C6_FlushEnqueuesOneTask ==
    LET multi == Surviving(last.args.cmd_batches)
    IN  /\ FlushCharged
           => /\ last.args.max_level = All
              /\ multi # <<>>
              /\ in_use = last.pre.in_use + Bytes(multi)
              /\ queue = last.pre.queue
        /\ FlushedSurvivors
           => /\ in_use = last.pre.in_use
              /\ last.sent = <<MultiBatch(multi)>>
              /\ queue = IF sched_alive
                         THEN Append(last.pre.queue, MultiBatch(multi))
                         ELSE last.pre.queue

\* C6, witness: a flush of three batches, the middle one left out, enqueued
\* one task with the two others in order; their bytes are what is in use
C6_Witness ==
    /\ FlushedSurvivors
    /\ sched_alive
    /\ Len(last.args.cmd_batches) = 3
    /\ Len(queue) = Len(last.pre.queue) + 1
    /\ queue[Len(queue)].multi =
           <<last.args.cmd_batches[1], last.args.cmd_batches[3]>>
    /\ last.args.cmd_batches[1] # last.args.cmd_batches[3]
    /\ in_use = Bytes(Surviving(last.args.cmd_batches))

\* C7: a flush whose batches are all below level All, or all empty, enqueues
\* nothing and leaves the quota usage unchanged: its first step is the whole
\* call.
C7_NothingSurvivesNothingHappens ==
    (/\ last.op \in {"on_flush_applied_cmd_batch", "snapshot", "alloc_force"}
     /\ LET cbs == last.args.cmd_batches
        IN  \/ \A i \in 1..Len(cbs) : cbs[i].level < All
            \/ \A i \in 1..Len(cbs) : cbs[i].cmds = <<>>)
    => (/\ last.op = "on_flush_applied_cmd_batch"
        /\ last.sent = <<>>
        /\ queue = last.pre.queue
        /\ in_use = last.pre.in_use
        /\ \A t \in HookThreads : pc[t] = "idle")

\* C7, witness: a flush at max_level All of batches of level All, all empty,
\* happened with tasks in the channel and bytes in use
C7_Witness ==
    /\ last.op = "on_flush_applied_cmd_batch"
    /\ last.args.max_level = All
    /\ \A i \in 1..Len(last.args.cmd_batches) :
           /\ last.args.cmd_batches[i].level = All
           /\ last.args.cmd_batches[i].cmds = <<>>
    /\ sched_alive
    /\ queue # <<>>
    /\ in_use > 0

\* the quota is fully consumed before the last step
QuotaWasFull == last.pre.in_use >= capacity

\* C8: the quota never makes the forced path fail.  With the quota fully
\* consumed the hints of a transaction are dropped (their allocation fails,
\* nothing is enqueued for them), while a flush is still charged and its task
\* is still enqueued: handed to the scheduler and, unless the scheduler
\* rejects it, appended to the channel.
C8_ForcedPathIgnoresQuota ==
    /\ (last.op = "txn_extra_schedule" /\ QuotaWasFull)
       => (/\ last.sent = <<>>
           /\ in_use = last.pre.in_use
           /\ queue = last.pre.queue)
    /\ (FlushCharged /\ QuotaWasFull)
       => /\ in_use = last.pre.in_use
                         + task_size(MultiBatch(Surviving(last.args.cmd_batches)))
          /\ \E t \in HookThreads : pc[t] = "flush_schedule"
    /\ (FlushedSurvivors /\ QuotaWasFull)
       => LET task == MultiBatch(Surviving(last.args.cmd_batches))
          IN  /\ last.sent = <<task>>
              /\ queue = IF sched_alive THEN last.pre.queue \o <<task>>
                         ELSE last.pre.queue

\* C8, witness: with a flush in the channel and the quota at its bound or
\* over it, a second flush was charged and reached the channel
C8_Witness ==
    /\ FlushedSurvivors
    /\ QuotaWasFull
    /\ in_use - Bytes(Surviving(last.args.cmd_batches)) >= capacity
    /\ capacity > 0
    /\ sched_alive
    /\ Len(queue) = 2
    /\ queue[2] = MultiBatch(Surviving(last.args.cmd_batches))
    /\ queue[1].kind = "MultiBatch"
    /\ in_use > capacity

\* C9: a forced allocation of b bytes adds b to the usage, past the bound if
\* need be; a try-allocation of b bytes adds b only if usage + b does not
\* exceed the bound and otherwise leaves the usage unchanged.
C9_QuotaCounter ==
    /\ FlushCharged
       => in_use = last.pre.in_use + Bytes(Surviving(last.args.cmd_batches))
    /\ last.op = "txn_extra_schedule"
       => in_use = IF last.pre.in_use + last.args.size <= capacity
                   THEN last.pre.in_use + last.args.size
                   ELSE last.pre.in_use

\* C9, witness: a forced allocation took the usage from within the bound to
\* past it
C9_Witness ==
    /\ FlushCharged
    /\ last.pre.in_use <= capacity
    /\ last.pre.in_use > 0
    /\ in_use > capacity
    /\ in_use = last.pre.in_use + Bytes(Surviving(last.args.cmd_batches))

\* C4: under any interleaving of concurrent subscribe, unsubscribe and lookup
\* calls the registry holds at most one ObserveId per region, and a lookup
\* never observes a half-applied subscribe or unsubscribe: what it returns is
\* what the completed writes had left for the region when it read.
C4_OneIdPerRegionAtomicLookup ==
    /\ \A r \in Regions : Cardinality(IdsOf(observe_regions, r)) <= 1
    /\ \A t \in Threads :
           pc[t] = "read_unlock" => loc[t].ret = loc[t].committed
    /\ \A t \in Threads :
           pc[t] \in {"is_subscribed_get", "read_unlock"}
           => \A r \in Regions : is_subscribed(r) = generation[r]

\* C4, witness: a lookup has read the id of a region under its read guard
\* while another thread waits to subscribe the same region under another id
C4_Witness ==
    \E t \in Threads, u \in Threads :
        /\ pc[t] = "read_unlock"
        /\ t \in rw_readers
        /\ loc[t].ret # None
        /\ pc[u] = "subscribe_write"
        /\ loc[u].region_id = loc[t].region_id
        /\ Some(loc[u].observe_id) # loc[t].ret

\* the tasks sent so far and not dropped, oldest first, each with its origin:
\* those the consumer received, then those still in the channel
Sent == delivered \o [i \in 1..Len(queue) |-> <<origins[i], queue[i]>>]

\* C10: the tasks of the flushes of one apply thread reach the consumer in the
\* order the hook was given the flushes: they are never reordered, a flush is
\* never split over several tasks, and the task of a flush holds all the
\* batches it keeps, not a part of them.
C10_FlushOrderPerThread ==
    /\ \A i, j \in 1..Len(Sent) :
           (i < j /\ Sent[i][1][1] = Sent[j][1][1]) => Sent[i][1][2] < Sent[j][1][2]
    /\ \A i \in 1..Len(Sent) :
           LET flush == observed[Sent[i][1][1]][Sent[i][1][2]]
           IN  /\ flush.max_level = All
               /\ Sent[i][2] = MultiBatch(Surviving(flush.cmd_batches))

\* C10, witness: the consumer received the task of both flushes of one thread,
\* the first before the second, with a task of the other thread between them
C10_Witness ==
    /\ Len(delivered) >= 3
    /\ delivered[1][1] = <<1, 1>>
    /\ delivered[2][1][1] = 2
    /\ delivered[3][1] = <<1, 2>>
    /\ Len(delivered[3][2].multi) = 2

---------------------------------------------------------------------------
(* Properties of the role and region hooks *)

\* in the last step a role change to a role other than leader returned, of a
\* region that was registered when the hook looked it up
RoleLostWhileSubscribed ==
    /\ last.op = "on_role_change"
    /\ last.args.role_change.state # "Leader"
    /\ IdsOf(last.registered, last.args.region.id) # {}

\* what the channel holds after a hook that handed task to the scheduler
Enqueued(task) ==
    queue = IF sched_alive THEN Append(last.pre.queue, task) ELSE last.pre.queue

\* C11: a role change to a role other than leader, of a subscribed region,
\* that carries a valid leader id L, a peer of id L being in the region's peer
\* list, enqueues one Deregister with the region's id, the ObserveId
\* registered at that moment and a NotLeader whose leader is that peer.
C11_ExplicitLeaderResolved ==
    RoleLostWhileSubscribed =>
        LET region == last.args.region
            rc == last.args.role_change
        IN  \A i \in 1..Len(region.peers), a \in ObserveIds :
                (/\ rc.leader_id # INVALID_ID
                 /\ region.peers[i].id = rc.leader_id
                 /\ <<region.id, a>> \in last.registered)
                => LET task == [kind |-> "Deregister", region_id |-> region.id,
                                observe_id |-> a,
                                err |-> [kind |-> "NotLeader",
                                         region_id |-> region.id,
                                         leader |-> Some(region.peers[i])]]
                   IN  last.sent = <<task>> /\ Enqueued(task)

\* C11, witness: leader id 2 with peers 2 and 3, a vote for 3 notwithstanding:
\* the Deregister in the channel names peer 2 and the ObserveId the hook
\* looked up, which the owner has replaced since
C11_Witness ==
    /\ RoleLostWhileSubscribed
    /\ last.args.role_change.leader_id = 2
    /\ last.args.role_change.prev_lead_transferee = 3
    /\ last.args.role_change.vote = 3
    /\ sched_alive
    /\ queue # <<>>
    /\ queue[Len(queue)].err.leader = Some(Peer(2, 2))
    /\ <<last.args.region.id, queue[Len(queue)].observe_id>> \in last.registered
    /\ Some(queue[Len(queue)].observe_id) # is_subscribed(last.args.region.id)

\* C12: a role change to a role other than leader, of a subscribed region,
\* with no leader id, whose prev_lead_transferee equals its vote and is the id
\* of a peer of the region's peer list, enqueues a NotLeader Deregister whose
\* leader is that peer.
C12_TransfereeResolved ==
    RoleLostWhileSubscribed =>
        LET region == last.args.region
            rc == last.args.role_change
        IN  \A i \in 1..Len(region.peers) :
                (/\ rc.leader_id = INVALID_ID
                 /\ rc.prev_lead_transferee = rc.vote
                 /\ region.peers[i].id = rc.vote)
                => /\ Len(last.sent) = 1
                   /\ last.sent[1].kind = "Deregister"
                   /\ last.sent[1].region_id = region.id
                   /\ last.sent[1].err.kind = "NotLeader"
                   /\ last.sent[1].err.leader = Some(region.peers[i])
                   /\ Enqueued(last.sent[1])

\* C12, witness: no leader id, prev_lead_transferee = vote = 3 with peers 2
\* and 3: the Deregister in the channel names peer 3
C12_Witness ==
    /\ RoleLostWhileSubscribed
    /\ last.args.role_change.leader_id = INVALID_ID
    /\ last.args.role_change.prev_lead_transferee = 3
    /\ last.args.role_change.vote = 3
    /\ sched_alive
    /\ queue # <<>>
    /\ queue[Len(queue)].err.leader = Some(Peer(3, 3))

\* C13: a role change to leader, and any role change of a region that has no
\* registered ObserveId (never subscribed, or unsubscribed since), enqueues
\* nothing.
C13_LeaderOrUnsubscribedSilent ==
    (/\ last.op = "on_role_change"
     /\ \/ last.args.role_change.state = "Leader"
        \/ IdsOf(last.registered, last.args.region.id) = {})
    => (last.sent = <<>> /\ queue = last.pre.queue)

\* C13, witness: a role change to follower of a region that is not
\* registered, while the other region is
C13_Witness ==
    /\ last.op = "on_role_change"
    /\ last.args.role_change.state = "Follower"
    /\ last.pre.observe_regions # {}
    /\ IdsOf(last.registered, last.args.region.id) = {}
    /\ sched_alive

\* in the last step the hook returned from a Destroy, or from an Update for
\* Split or CommitMerge
RegionGone ==
    /\ last.op = "on_region_changed"
    /\ last.args.event \in
           {<<"Destroy">>, <<"Update", "Split">>, <<"Update", "CommitMerge">>}

\* C14: a Destroy, or an Update for Split or CommitMerge, of a subscribed
\* region enqueues exactly one Deregister with the region's id, the ObserveId
\* registered at that moment and RegionNotFound; of a region that is not
\* subscribed, it enqueues nothing.
C14_RegionGoneDeregisters ==
    RegionGone =>
        LET r == last.args.region.id
            ids == IdsOf(last.registered, r)
        IN  /\ \A a \in ids :
                   LET task == [kind |-> "Deregister", region_id |-> r,
                                observe_id |-> a,
                                err |-> [kind |-> "RegionNotFound", region_id |-> r]]
                   IN  last.sent = <<task>> /\ Enqueued(task)
            /\ ids = {} => (last.sent = <<>> /\ queue = last.pre.queue)

\* C14, witness: a split of a subscribed region put a RegionNotFound
\* Deregister with the registered ObserveId at the end of the channel
C14_Witness ==
    /\ RegionGone
    /\ last.args.event = <<"Update", "Split">>
    /\ sched_alive
    /\ Len(queue) = Len(last.pre.queue) + 1
    /\ queue[Len(queue)].err.kind = "RegionNotFound"
    /\ <<last.args.region.id, queue[Len(queue)].observe_id>> \in last.registered
    /\ Some(queue[Len(queue)].observe_id) = is_subscribed(last.args.region.id)

\* in the last step one of the three hooks returned
HookCalled ==
    last.op \in {"on_flush_applied_cmd_batch", "on_role_change", "on_region_changed"}

\* the last step was a step of one of the three hooks
HookStep ==
    HookCalled \/ last.op \in {"snapshot", "alloc_force", "is_subscribed", "panic"}

\* C15: no hook changes the registry: every step of a flush, of a role
\* change or of a region change leaves the registry what it was.  Only
\* subscribe_region and unsubscribe_region (the owner's, or the consumer's
\* when it handles a Deregister) change it, so a region that is registered
\* when its Deregister is enqueued is still registered right after.
C15_HooksKeepRegistry ==
    /\ HookStep => observe_regions = last.pre.observe_regions
    /\ observe_regions # last.pre.observe_regions
       => \/ last.op \in {"subscribe_region", "unsubscribe_region"}
          \/ last.op = "consume" /\ last.args.task.kind = "Deregister"
    /\ (/\ HookCalled
        /\ last.sent # <<>>
        /\ last.sent[1].kind = "Deregister"
        /\ <<last.sent[1].region_id, last.sent[1].observe_id>>
               \in last.pre.observe_regions)
       => is_subscribed(last.sent[1].region_id) = Some(last.sent[1].observe_id)

\* C15, witness: a Destroy of a subscribed region enqueued its Deregister and
\* the region is still registered under the same ObserveId
C15_Witness ==
    /\ last.op = "on_region_changed"
    /\ last.args.event = <<"Destroy">>
    /\ sched_alive
    /\ queue # <<>>
    /\ queue[Len(queue)].kind = "Deregister"
    /\ is_subscribed(last.args.region.id) = Some(queue[Len(queue)].observe_id)

\* the last step was a hook whose schedule call the scheduler rejected
EnqueueRejected == HookCalled /\ last.sent # <<>> /\ ~sched_alive

\* C16: when the scheduler rejects the task, the hook drops it and returns:
\* it made its one schedule call, the channel and the registry are what they
\* were, and a rejected task never reaches the channel later.  The events
\* that follow are handled as usual: a hook that has a task to hand over
\* still makes its call, and a flush still charges its bytes.
C16_RejectedEnqueueDropped ==
    /\ ~sched_alive => queue = <<>>
    /\ EnqueueRejected
       => /\ Len(last.sent) = 1
          /\ queue = last.pre.queue
          /\ observe_regions = last.pre.observe_regions
    /\ (~sched_alive /\ RoleLostWhileSubscribed) => Len(last.sent) = 1
    /\ (~sched_alive /\ RegionGone
        /\ IdsOf(last.registered, last.args.region.id) # {})
       => Len(last.sent) = 1
    /\ (~sched_alive /\ FlushCharged)
       => in_use = last.pre.in_use + Bytes(Surviving(last.args.cmd_batches))
    /\ (~sched_alive /\ FlushedSurvivors)
       => last.sent = <<MultiBatch(Surviving(last.args.cmd_batches))>>

\* C16, witness: with the bytes of an earlier flush still charged, a role
\* change of a subscribed region was rejected; the channel is empty and the
\* region still registered
C16_Witness ==
    /\ EnqueueRejected
    /\ last.op = "on_role_change"
    /\ last.pre.in_use > 0
    /\ queue = <<>>
    /\ is_subscribed(last.args.region.id) = Some(last.sent[1].observe_id)

---------------------------------------------------------------------------
(* Properties of the delivery: release, loss and duplication *)

\* the bytes the tasks of a channel hold of the quota
RECURSIVE QueuedBytes(_)
QueuedBytes(q) ==
    IF q = <<>> THEN 0
    ELSE (IF Head(q).kind = "MultiBatch" THEN Bytes(Head(q).multi)
          ELSE IF Head(q).kind = "TxnExtra" THEN Head(q).size
          ELSE 0)
         + QueuedBytes(Tail(q))

\* the bytes of the flushes that have made their forced allocation and not
\* their schedule call yet
RECURSIVE ChargedNotEnqueuedBy(_)
ChargedNotEnqueuedBy(ts) ==
    IF ts = {} THEN 0
    ELSE LET t == CHOOSE x \in ts : TRUE
         IN  (IF pc[t] = "flush_schedule"
              THEN Bytes(Surviving(loc[t].cmd_batches)) ELSE 0)
             + ChargedNotEnqueuedBy(ts \ {t})

ChargedNotEnqueued == ChargedNotEnqueuedBy(Threads)

\* C17: the bytes a flush charges are released exactly once, by the consumer
\* when it has handled the flush's task: while the consumer runs, the bytes
\* in use are exactly those of the tasks still in the channel and of the
\* flushes about to enqueue theirs, and handling a MultiBatch gives back
\* exactly the bytes of its batches.  So once the task of every flush is
\* handled, the usage is what it was before them.
C17_FlushBytesReleasedOnce ==
    /\ sched_alive => in_use = QueuedBytes(queue) + ChargedNotEnqueued
    /\ (last.op = "consume" /\ last.args.task.kind = "MultiBatch")
       => /\ in_use = last.pre.in_use - Bytes(last.args.task.multi)
          /\ last.pre.in_use >= Bytes(last.args.task.multi)
          /\ queue = Tail(last.pre.queue)

\* C17, witness: the consumer handled the task of the only flush pending and
\* the usage went from the bytes of that flush back to 0
C17_Witness ==
    /\ last.op = "consume"
    /\ last.args.task.kind = "MultiBatch"
    /\ sched_alive
    /\ queue = <<>>
    /\ ChargedNotEnqueued = 0
    /\ last.pre.in_use = Bytes(last.args.task.multi)
    /\ last.pre.in_use > 0
    /\ in_use = 0

\* an entry <<origin, task>> whose task is a MultiBatch
IsMultiBatch(e) == e[2].kind = "MultiBatch"

\* the MultiBatches enqueued so far, each with the flush it comes from: those
\* the consumer received, then those still in the channel
EnqueuedMultiBatches ==
    delivered \o SelectSeq([i \in 1..Len(queue) |-> <<origins[i], queue[i]>>],
                           IsMultiBatch)

\* where batch b of flush k occurs in the MultiBatches enqueued so far
Occurrences(k, b) ==
    LET sent == EnqueuedMultiBatches
    IN  UNION { { <<n, i>> : i \in { j \in 1..Len(sent[n][2].multi) :
                                         sent[n][2].multi[j] = b } } :
                n \in { m \in 1..Len(sent) : sent[m][1] = <<1, k>> } }

\* the flushes of the apply pipeline whose hook has returned: all those
\* observed, but for the one the hook is in
FlushesReturned ==
    IF pc[1] \in {"flush_alloc", "flush_schedule"}
    THEN Len(observed[1]) - 1
    ELSE Len(observed[1])

\* flush k of the apply pipeline is lost: its hook has returned, it had
\* batches of level All holding a command, and no MultiBatch enqueued so far
\* comes from it
FlushLost(k) ==
    /\ k \in 1..FlushesReturned
    /\ Surviving(observed[1][k].cmd_batches) # <<>>
    /\ \A n \in 1..Len(EnqueuedMultiBatches) : EnqueuedMultiBatches[n][1] # <<1, k>>

\* C18, as stated: nothing is lost and nothing is duplicated.  Whatever the
\* owner, the role and region events and the consumer do in between, every
\* batch of level All that holds a command, of every flush the hook has
\* returned from, is in exactly one enqueued MultiBatch, once (and in none
\* before the hook has made its schedule call); a MultiBatch holds nothing
\* but those batches of one flush; and no MultiBatch is received twice, nor
\* received and still in the channel.  It fails once the consumer has
\* stopped: Scheduler::schedule returns Err, the hook logs it and returns
\* (observer.rs:134-139), and the tasks the channel held are dropped.
C18_AsStated ==
    LET flushes == observed[1]
        sent == EnqueuedMultiBatches
    IN  /\ \A k \in 1..Len(flushes) :
               \A j \in 1..Len(Surviving(flushes[k].cmd_batches)) :
                   Cardinality(Occurrences(k, Surviving(flushes[k].cmd_batches)[j]))
                       = IF k <= FlushesReturned THEN 1 ELSE 0
        /\ \A n \in 1..Len(sent) :
               /\ sent[n][1][1] = 1
               /\ sent[n][1][2] \in 1..FlushesReturned
               /\ sent[n][2].multi = Surviving(flushes[sent[n][1][2]].cmd_batches)
        /\ \A m, n \in 1..Len(sent) : sent[m][1] = sent[n][1] => m = n

\* C18: nothing is duplicated, and nothing is lost while the scheduler
\* accepts.  Whatever the owner, the role and region events and the consumer
\* do in between, every batch of level All that holds a command, of every
\* flush the hook has returned from, is in at most one enqueued MultiBatch,
\* once, and in exactly one as long as the consumer has not stopped (and in
\* none before the hook has made its schedule call); a MultiBatch holds
\* nothing but those batches of one flush; no MultiBatch is received twice,
\* nor received and still in the channel; and a flush is lost only after the
\* consumer has stopped, together with every flush that returned after it.
C18_NoDuplicationLossOnlyAtShutdown ==
    LET flushes == observed[1]
        sent == EnqueuedMultiBatches
    IN  /\ \A k \in 1..Len(flushes) :
               \A j \in 1..Len(Surviving(flushes[k].cmd_batches)) :
                   LET n == Cardinality(Occurrences(k, Surviving(flushes[k].cmd_batches)[j]))
                   IN  /\ n <= 1
                       /\ k > FlushesReturned => n = 0
                       /\ (k <= FlushesReturned /\ sched_alive) => n = 1
        /\ \A n \in 1..Len(sent) :
               /\ sent[n][1][1] = 1
               /\ sent[n][1][2] \in 1..FlushesReturned
               /\ sent[n][2].multi = Surviving(flushes[sent[n][1][2]].cmd_batches)
        /\ \A m, n \in 1..Len(sent) : sent[m][1] = sent[n][1] => m = n
        /\ \A k \in 1..FlushesReturned :
               FlushLost(k) =>
                   /\ ~sched_alive
                   /\ \A k2 \in k..FlushesReturned :
                          Surviving(flushes[k2].cmd_batches) # <<>> => FlushLost(k2)

\* C18, witness: the consumer received the first flush and stopped; the
\* second, of three batches of which two were to be kept, has returned and
\* is in no task, while a region is registered
C18_Witness ==
    /\ ~sched_alive
    /\ pc[1] = "idle"
    /\ Len(delivered) = 1
    /\ delivered[1][1] = <<1, 1>>
    /\ Len(observed[1]) = 2
    /\ Len(observed[1][2].cmd_batches) = 3
    /\ Len(Surviving(observed[1][2].cmd_batches)) = 2
    /\ FlushLost(2)
    /\ observe_regions # {}

\* the last step told the observer that the local peer of region r is no
\* longer leader, or that r was destroyed, split or merged, r being registered
\* under a, and the scheduler took the signal
LostOrGone(r, a) ==
    /\ RoleLostWhileSubscribed \/ RegionGone
    /\ last.args.region.id = r
    /\ <<r, a>> \in last.registered
    /\ sched_alive

\* C19: when the local peer loses the leadership of a region registered under
\* A, or the region is destroyed, split or merged, then, the scheduler taking
\* the signal and the consumer going on receiving, A eventually is not the
\* ObserveId registered for the region.
C19_EventuallyUnsubscribed ==
    \A r \in Regions, a \in ObserveIds :
        LostOrGone(r, a) ~> (is_subscribed(r) # Some(a))

\* C19, witness: the consumer handled the Deregister of a region that was
\* still registered under the ObserveId it carries, and took it out
C19_Witness ==
    /\ last.op = "consume"
    /\ last.args.task.kind = "Deregister"
    /\ <<last.args.task.region_id, last.args.task.observe_id>>
           \in last.pre.observe_regions
    /\ last.ret = Some(last.args.task.observe_id)
    /\ is_subscribed(last.args.task.region_id) = None

\* the number of Deregisters of region r and ObserveId a in a channel
RECURSIVE DeregistersOf(_, _, _)
DeregistersOf(q, r, a) ==
    IF q = <<>> THEN 0
    ELSE (IF /\ Head(q).kind = "Deregister"
             /\ Head(q).region_id = r
             /\ Head(q).observe_id = a
          THEN 1 ELSE 0)
         + DeregistersOf(Tail(q), r, a)

\* C20: every role or region event that qualifies enqueues one Deregister,
\* whatever the channel already holds: the Deregister, with the ObserveId
\* registered, goes behind those of the events before it, which stay as they
\* are, so that k such events of a region that stays registered under one
\* ObserveId make k Deregisters with that id, in the order of the events.
\* (The hook makes its one schedule call in any case; the Deregister is in
\* the channel unless the scheduler rejects it.)
C20_OneSignalPerEvent ==
    (\/ RoleLostWhileSubscribed
     \/ (RegionGone /\ IdsOf(last.registered, last.args.region.id) # {}))
    => LET r == last.args.region.id
       IN  \A a \in IdsOf(last.registered, r) :
               /\ Len(last.sent) = 1
               /\ last.sent[1].observe_id = a
               /\ sched_alive
                  => /\ Len(queue) = Len(last.pre.queue) + 1
                     /\ SubSeq(queue, 1, Len(last.pre.queue)) = last.pre.queue
                     /\ queue[Len(queue)] = last.sent[1]
                     /\ queue[Len(queue)].kind = "Deregister"
                     /\ queue[Len(queue)].region_id = r
                     /\ queue[Len(queue)].observe_id = a
                     /\ DeregistersOf(queue, r, a)
                            = DeregistersOf(last.pre.queue, r, a) + 1

\* C20, witness: two role changes alike, of a region registered under one
\* ObserveId throughout, left two Deregisters alike in the channel
C20_Witness ==
    /\ RoleLostWhileSubscribed
    /\ sched_alive
    /\ Len(queue) = 2
    /\ queue[1] = queue[2]
    /\ last.pre.queue = <<queue[1]>>
    /\ is_subscribed(last.args.region.id) = Some(queue[2].observe_id)

---------------------------------------------------------------------------
(* Properties of the registry and of the hooks, continued *)

\* the last step was an unsubscribe_region naming ObserveId a, the owner's or
\* the consumer's for a Deregister
UnsubscribeNamed(a) ==
    \/ last.op = "unsubscribe_region" /\ last.args.observe_id = a
    \/ /\ last.op = "consume"
       /\ last.args.task.kind = "Deregister"
       /\ last.args.task.observe_id = a

\* an unsubscribe_region call before the last step returned a
ReturnedBefore(a) ==
    IF UnsubscribeNamed(a) /\ last.ret = Some(a)
    THEN returned[a] > 1
    ELSE returned[a] > 0

\* C21: with ObserveIds that are never reused, at most one unsubscribe_region
\* call returns Some(A) for an id A: an unsubscribe_region naming A after one
\* that returned it, the owner's or the consumer's for a duplicate Deregister,
\* returns None and leaves the registry as it was.
C21_UnsubscribeReturnsOnce ==
    \A a \in ObserveIds :
        /\ returned[a] <= 1
        /\ returned[a] > 0 => a \in issued
        /\ (UnsubscribeNamed(a) /\ ReturnedBefore(a))
           => /\ last.ret = None
              /\ observe_regions = last.pre.observe_regions

\* C21, witness: the consumer handled a second Deregister of an ObserveId
\* whose first had taken the region out, the region being registered again
\* under a newer id: it returned None and the newer id stays
C21_Witness ==
    /\ last.op = "consume"
    /\ last.args.task.kind = "Deregister"
    /\ ReturnedBefore(last.args.task.observe_id)
    /\ last.ret = None
    /\ is_subscribed(last.args.task.region_id) # None
    /\ is_subscribed(last.args.task.region_id) # Some(last.args.task.observe_id)

\* the flush a thread's hook was given last
LatestFlush(t) == observed[t][Len(observed[t])]

\* in the step taken, thread t entered the hook with a non-empty list whose
\* max_level is below All
EntersBelowAll(t) ==
    /\ Len(observed'[t]) = Len(observed[t]) + 1
    /\ observed'[t][Len(observed'[t])].cmd_batches # <<>>
    /\ observed'[t][Len(observed'[t])].max_level < All

\* C22: a flush whose max_level is below All returns at once, whatever the
\* levels and the contents of its batches: the step in which the hook is
\* entered is the whole call, and it enqueues nothing, takes no snapshot of
\* the engine and leaves the quota usage as it was.
C22_BelowAllReturnsAtOnce ==
    [][\A t \in Threads :
           EntersBelowAll(t)
           => /\ pc'[t] = "idle"
              /\ loc'[t].snapshot = None
              /\ engine' = engine
              /\ queue' = queue
              /\ origins' = origins
              /\ in_use' = in_use]_vars

\* C22, witness: a flush of max_level LockRelated holding a batch of level All
\* with commands has returned, after a flush that took a snapshot, charged
\* its bytes and enqueued its task, all of which are as they were
C22_Witness ==
    \E t \in Threads :
        /\ pc[t] = "idle"
        /\ Len(observed[t]) = 2
        /\ LatestFlush(t).max_level = LockRelated
        /\ \E i \in 1..Len(LatestFlush(t).cmd_batches) :
               /\ LatestFlush(t).cmd_batches[i].level = All
               /\ LatestFlush(t).cmd_batches[i].cmds # <<>>
        /\ loc[t].snapshot = None
        /\ engine.snapshots = 1
        /\ Len(queue) = 1
        /\ in_use = Bytes(queue[1].multi)
        /\ in_use > 0

\* in the step taken, thread t entered the hook with an empty list
EntersEmpty(t) ==
    /\ Len(observed'[t]) = Len(observed[t]) + 1
    /\ observed'[t][Len(observed'[t])].cmd_batches = <<>>

\* C23: the hook is to be given a non-empty list.  Given an empty one it
\* fails its assertion before it touches the quota, the engine or the
\* scheduler: the thread unwinds, nothing is charged and nothing enqueued.
\* So every call of the hook that went past its first line had a non-empty
\* list.
C23_EmptyListTripsAssertion ==
    [][\A t \in Threads :
           /\ EntersEmpty(t)
              => /\ pc'[t] = "panicked"
                 /\ loc'[t].snapshot = None
                 /\ engine' = engine
                 /\ queue' = queue
                 /\ origins' = origins
                 /\ in_use' = in_use
           /\ pc'[t] \in {"flush_alloc", "flush_schedule"}
              => observed'[t][Len(observed'[t])].cmd_batches # <<>>
           /\ \A i \in 1..Len(origins') :
                  origins'[i][1] = t
                  => observed'[t][origins'[i][2]].cmd_batches # <<>>]_vars

\* C23, witness: a thread has failed the assertion on an empty list, while
\* the task and the bytes of its flush before are where they were
C23_Witness ==
    \E t \in Threads :
        /\ pc[t] = "panicked"
        /\ LatestFlush(t).cmd_batches = <<>>
        /\ Len(observed[t]) = 2
        /\ Len(queue) = 1
        /\ origins[1] = <<t, 1>>
        /\ in_use = Bytes(queue[1].multi)
        /\ in_use > 0

\* C24: the snapshot in the closure of a MultiBatch is taken by the hook
\* before it charges the quota and before it enqueues the task: a hook about
\* to charge, or about to enqueue, holds the snapshot of what the engine held
\* when the hook was entered, and has neither charged (for the first) nor
\* enqueued yet.  The closure of every task in the channel carries that
\* snapshot, and what the consumer reads through it is what the engine held
\* at the flush, whatever the engine holds by then.
C24_SnapshotTakenAtFlush ==
    /\ \A t \in Threads :
           pc[t] \in {"flush_alloc", "flush_schedule"}
           => /\ loc[t].snapshot = Some([data |-> LatestFlush(t).at_flush])
              /\ \A i \in 1..Len(origins) : origins[i] # <<t, Len(observed[t])>>
              /\ \A i \in 1..Len(delivered) :
                     delivered[i][1] # <<t, Len(observed[t])>>
    /\ \A t \in Threads :
           (sched_alive /\ pc[t] = "flush_alloc") => in_use = QueuedBytes(queue)
    /\ \A i \in 1..Len(queue) :
           queue[i].old_value_cb =
               Some([data |-> observed[origins[i][1]][origins[i][2]].at_flush])
    /\ \A i \in 1..Len(delivered) :
           delivered[i][3] =
               Some(observed[delivered[i][1][1]][delivered[i][1][2]].at_flush)

\* C24, witness: the consumer has evaluated the closure of a flush and read
\* what the engine held at the flush, which the engine no longer holds
C24_Witness ==
    /\ Len(delivered) = 1
    /\ delivered[1][3] = Some(observed[1][1].at_flush)
    /\ delivered[1][3] # Some(engine.data)
    /\ engine.snapshots = 1

\* the Deregister of a role change of region r registered under a, with
\* leader as the leader of its NotLeader
NotLeaderSignal(r, a, leader) ==
    [kind |-> "Deregister", region_id |-> r, observe_id |-> a,
     err |-> [kind |-> "NotLeader", region_id |-> r, leader |-> leader]]

\* C25: a valid leader id comes before the transferee rule.  When the role
\* change carries a valid leader id that is the id of no peer of the region's
\* peer list, the NotLeader Deregister is still enqueued, and it names no
\* leader, even if prev_lead_transferee equals vote and is the id of a peer
\* of the list.
C25_UnknownLeaderIdOmitsLeader ==
    RoleLostWhileSubscribed =>
        LET region == last.args.region
            rc == last.args.role_change
        IN  (/\ rc.leader_id # INVALID_ID
             /\ \A i \in 1..Len(region.peers) : region.peers[i].id # rc.leader_id)
            => \A a \in IdsOf(last.registered, region.id) :
                   /\ last.sent = <<NotLeaderSignal(region.id, a, None)>>
                   /\ Enqueued(NotLeaderSignal(region.id, a, None))

\* C25, witness: leader id 4 with peers 2 and 3, prev_lead_transferee = vote
\* = 3: the Deregister in the channel names no leader
C25_Witness ==
    /\ RoleLostWhileSubscribed
    /\ last.args.role_change.leader_id = 4
    /\ last.args.role_change.prev_lead_transferee = 3
    /\ last.args.role_change.vote = 3
    /\ last.args.region.peers = <<Peer(2, 2), Peer(3, 3)>>
    /\ sched_alive
    /\ Len(queue) = 1
    /\ queue[1].err = NotLeader(last.args.region.id, None)

\* C26: a role change to a role other than leader, of a subscribed region,
\* that carries no valid leader id and whose prev_lead_transferee differs
\* from its vote, enqueues the NotLeader Deregister with no leader.
C26_TransfereeNotVoteOmitsLeader ==
    RoleLostWhileSubscribed =>
        LET region == last.args.region
            rc == last.args.role_change
        IN  (rc.leader_id = INVALID_ID /\ rc.prev_lead_transferee # rc.vote)
            => \A a \in IdsOf(last.registered, region.id) :
                   /\ last.sent = <<NotLeaderSignal(region.id, a, None)>>
                   /\ Enqueued(NotLeaderSignal(region.id, a, None))

\* C26, witness: no leader id, a vote for peer 3 and no transferee, with peers
\* 2 and 3: the Deregister in the channel names no leader
C26_Witness ==
    /\ RoleLostWhileSubscribed
    /\ last.args.role_change.leader_id = INVALID_ID
    /\ last.args.role_change.prev_lead_transferee = INVALID_ID
    /\ last.args.role_change.vote = 3
    /\ last.args.region.peers = <<Peer(2, 2), Peer(3, 3)>>
    /\ sched_alive
    /\ Len(queue) = 1
    /\ queue[1].err.kind = "NotLeader"
    /\ queue[1].err.leader = None

\* C27: with no leader id and prev_lead_transferee and vote both INVALID_ID,
\* the two are equal and the candidate is INVALID_ID itself: the Deregister
\* names a leader only if a peer of the list has INVALID_ID for id, that peer,
\* and names none over a list of valid ids.
C27_InvalidCandidateLooksUpInvalidId ==
    RoleLostWhileSubscribed =>
        LET region == last.args.region
            rc == last.args.role_change
        IN  (/\ rc.leader_id = INVALID_ID
             /\ rc.prev_lead_transferee = INVALID_ID
             /\ rc.vote = INVALID_ID)
            => /\ Len(last.sent) = 1
               /\ last.sent[1].err.kind = "NotLeader"
               /\ Enqueued(last.sent[1])
               /\ \A i \in 1..Len(region.peers) :
                      (/\ region.peers[i].id = INVALID_ID
                       /\ \A j \in 1..(i - 1) : region.peers[j].id # INVALID_ID)
                      => last.sent[1].err.leader = Some(region.peers[i])
               /\ (\A i \in 1..Len(region.peers) : region.peers[i].id # INVALID_ID)
                  => last.sent[1].err.leader = None
               /\ last.sent[1].err.leader # None
                  => \E i \in 1..Len(region.peers) :
                         region.peers[i].id = INVALID_ID

\* C27, witness: a role change to follower with no leader id, no transferee
\* and no vote, over a peer list whose one peer has INVALID_ID for id: the
\* Deregister in the channel names that peer
C27_Witness ==
    /\ RoleLostWhileSubscribed
    /\ last.args.role_change =
           [state |-> "Follower", leader_id |-> INVALID_ID,
            prev_lead_transferee |-> INVALID_ID, vote |-> INVALID_ID]
    /\ last.args.region.peers = <<Peer(INVALID_ID, 0)>>
    /\ sched_alive
    /\ Len(queue) = 1
    /\ queue[1].err = NotLeader(last.args.region.id, Some(Peer(INVALID_ID, 0)))

\* C28: a region event that is neither Destroy nor an Update for Split or
\* CommitMerge (a Create, an Update for another reason) enqueues nothing,
\* even for a subscribed region.
C28_OtherRegionEventsSilent ==
    (last.op = "on_region_changed" /\ ~RegionGone)
    => (last.sent = <<>> /\ queue = last.pre.queue)

\* C28, witness: an Update for ChangePeer of a subscribed region, with the
\* scheduler taking tasks, left the channel empty
C28_Witness ==
    /\ last.op = "on_region_changed"
    /\ last.args.event = <<"Update", "ChangePeer">>
    /\ is_subscribed(last.args.region.id) # None
    /\ IdsOf(last.registered, last.args.region.id) # {}
    /\ sched_alive
    /\ queue = <<>>

---------------------------------------------------------------------------
(* Properties of the hooks under concurrent callers *)

\* thread t is in a hook, at its call of Scheduler::schedule
InEnqueue(t) == pc[t] \in {"hook_schedule", "flush_schedule"}

\* thread u is in subscribe_region or unsubscribe_region, waiting for the
\* write guard
WaitsForWrite(u) == pc[u] \in {"subscribe_write", "unsubscribe_write"}

\* C29: no hook holds the lock of the registry while it enqueues.  A hook at
\* its schedule call holds neither the read guard of its lookup, dropped
\* when is_subscribed returned, nor the write guard; so a subscribe or an
\* unsubscribe of another thread, with no third thread in the registry, gets
\* the write guard however long the hook stays in schedule.
C29_NoLockAcrossEnqueue ==
    \A t \in Threads :
        InEnqueue(t)
        => /\ t \notin rw_readers
           /\ rw_writer # t
           /\ \A u \in Threads \ {t} :
                  (/\ WaitsForWrite(u)
                   /\ \A v \in Threads \ {t, u} : pc[v] = "idle" \/ InEnqueue(v))
                  => /\ rwlock_write_free(rw_writer, rw_readers)
                     /\ ENABLED AcquireWrite(u)

\* C29, witness: with a hook at its schedule call, holding the ObserveId it
\* looked up, the other thread has taken the write guard and written the
\* hook's region
C29_Witness ==
    \E t \in Threads, u \in Threads :
        /\ pc[t] = "hook_schedule"
        /\ loc[t].ret # None
        /\ pc[u] = "write_unlock"
        /\ rw_writer = u
        /\ loc[u].region_id = loc[t].region.id
        /\ is_subscribed(loc[t].region.id) # loc[t].ret

\* C30: the lookup of a hook and its enqueue are two steps.  The ObserveId of
\* every Deregister in the channel is the one that was registered for its
\* region when the hook read the registry, and a hook at its schedule call
\* holds the id it read then; what is registered when the Deregister is
\* enqueued, or later, may be another id or none (the witness).
C30_SignalCarriesIdOfLookup ==
    /\ \A i \in 1..Len(queue) :
           queue[i].kind = "Deregister"
           => /\ origins[i][1] = Some(queue[i].observe_id)
              /\ queue[i].region_id \in Regions
    /\ \A t \in Threads :
           pc[t] = "hook_schedule"
           => /\ loc[t].ret # None
              /\ loc[t].ret = loc[t].committed
              /\ hook_tasks(loc[t])[1].observe_id = loc[t].committed[1]
              /\ hook_tasks(loc[t])[1].region_id = loc[t].region.id

\* C30, witness: a Deregister in the channel carries the id registered at its
\* hook's lookup, while another id was registered for the region by the time
\* it was enqueued and none is registered now
C30_Witness ==
    /\ Len(queue) = 1
    /\ queue[1].kind = "Deregister"
    /\ origins[1][1] = Some(queue[1].observe_id)
    /\ origins[1][2] # None
    /\ origins[1][2] # origins[1][1]
    /\ is_subscribed(queue[1].region_id) = None

---------------------------------------------------------------------------
(* Properties of the flush hook next to the registry and to other threads  *)

\* C31: the flush hook never consults the registry: what it adds to the
\* quota and what it hands to the scheduler are functions of the flush input
\* alone, the same whatever the registry holds, and it leaves the registry
\* as it was.  So the All-level non-empty batches of a region that is not, or
\* no longer, subscribed are still forwarded and still charged to the quota.
C31_FlushIgnoresRegistry ==
    last.op \in {"on_flush_applied_cmd_batch", "snapshot", "alloc_force"} =>
        LET multi == Surviving(last.args.cmd_batches)
            acts == last.args.max_level = All /\ multi # <<>>
        IN  /\ last.op \in {"snapshot", "alloc_force"} => acts
            /\ in_use = last.pre.in_use
                            + (IF last.op = "alloc_force" THEN Bytes(multi) ELSE 0)
            /\ last.op = "on_flush_applied_cmd_batch"
               => last.sent = IF acts THEN <<MultiBatch(multi)>> ELSE <<>>
            /\ queue = IF last.op = "on_flush_applied_cmd_batch" /\ acts /\ sched_alive
                       THEN Append(last.pre.queue, MultiBatch(multi))
                       ELSE last.pre.queue
            /\ observe_regions = last.pre.observe_regions

\* C31, witness: region 2 is subscribed and region 1 is not, and a flush of
\* a batch of region 1 alone was forwarded and charged
C31_Witness ==
    /\ FlushedSurvivors
    /\ sched_alive
    /\ last.args.cmd_batches = <<CmdBatch(1, All, <<1>>)>>
    /\ IdsOf(observe_regions, 1) = {}
    /\ IdsOf(observe_regions, 2) # {}
    /\ last.pre.generation[1] = None
    /\ in_use = 1
    /\ queue = <<MultiBatch(last.args.cmd_batches)>>

\* the bytes of the tasks the consumer received and has not released
RECURSIVE HeldBytes(_)
HeldBytes(dlv) ==
    IF dlv = <<>> THEN 0
    ELSE (IF dlv[1][3] \/ dlv[1][2].kind # "MultiBatch" THEN 0
          ELSE Bytes(dlv[1][2].multi))
         + HeldBytes(Tail(dlv))

\* C32: in every reachable state, with flushes running concurrently on
\* several threads, the quota usage is at least the total byte size of the
\* flush tasks that are in the scheduler's channel or that the consumer is
\* handling and has not released: each flush makes its forced allocation
\* before its enqueue.
C32_UsageCoversPendingTasks ==
    in_use >= QueuedBytes(queue) + HeldBytes(delivered)

\* C32, witness: one thread is between its allocation and its enqueue while
\* the task of the other thread is in the channel and the consumer holds a
\* third: the usage exceeds the bytes of the tasks pending
C32_Witness ==
    /\ \E t \in Threads : pc[t] = "flush_schedule"
    /\ QueuedBytes(queue) > 0
    /\ HeldBytes(delivered) > 0
    /\ in_use > QueuedBytes(queue) + HeldBytes(delivered)

\* C33: when the enqueue of a flush's task fails, the forced allocation made
\* for it is not rolled back: the usage stays increased by the S bytes of the
\* surviving batches although the task is not in the channel, so no task
\* exists whose consumption would release those bytes.
C33_FailedEnqueueKeepsCharge ==
    LET multi == Surviving(last.args.cmd_batches)
    IN  /\ (FlushCharged /\ ~sched_alive)
           => in_use = last.pre.in_use + Bytes(multi)
        /\ (FlushedSurvivors /\ ~sched_alive)
           => /\ last.sent = <<MultiBatch(multi)>>
              /\ in_use = last.pre.in_use
              /\ queue = last.pre.queue
              /\ in_use >= QueuedBytes(queue) + Bytes(multi)

\* C33, witness: the scheduler rejected the task of a flush; the channel is
\* empty and the usage is the bytes of the flush, with nothing to release them
C33_Witness ==
    /\ FlushedSurvivors
    /\ ~sched_alive
    /\ \A t \in Threads : pc[t] = "idle"
    /\ queue = <<>>
    /\ in_use = Bytes(Surviving(last.args.cmd_batches))
    /\ in_use > 0

\* C34: the flush hook leaves the caller's batch list unchanged: it forwards
\* copies of the surviving batches, so when the hook returns the list has the
\* same batches in the same order, and the observer registered after it is
\* given them all.
C34_CallerListUnchanged ==
    \A t \in ApplyThreads :
        /\ pc[t] = "next_observer" =>
               loc[t].cmd_batches = LatestFlush(t).cmd_batches
        /\ (pc[t] = "idle" /\ last.op = "next_cmd_observer") =>
               /\ last.args.cmd_batches = LatestFlush(t).cmd_batches
               /\ last.args.max_level = LatestFlush(t).max_level

\* C34, witness: the hook forwarded two of the three batches it was given
\* and the next observer received the three
C34_Witness ==
    /\ pc[1] = "idle"
    /\ last.op = "next_cmd_observer"
    /\ Len(last.args.cmd_batches) = 3
    /\ sched_alive
    /\ queue # <<>>
    /\ Len(queue[Len(queue)].multi) = 2
    /\ queue[Len(queue)].multi = Surviving(last.args.cmd_batches)

\* the entries a registry holds for the regions other than r
OtherEntries(regions, r) == {e \in regions : e[1] # r}

\* C35: subscribe_region, unsubscribe_region and is_subscribed on region R
\* leave the registry entry of every other region unchanged, whether or not
\* the operation succeeds: no step of a call on R changes what the registry
\* holds for the other regions.
C35_OtherRegionsUntouched ==
    [][\A t \in Threads :
           pc'[t] # pc[t] =>
               OtherEntries(observe_regions', loc'[t].region_id)
                   = OtherEntries(observe_regions, loc'[t].region_id)]_vars

\* C35, witness: a thread has removed the entry of region 1 in an
\* unsubscribe_region that succeeded, and the other region is still
\* registered
C35_Witness ==
    \E t \in Threads :
        /\ pc[t] = "write_unlock"
        /\ loc[t].region_id = 1
        /\ loc[t].ret = Some(loc[t].observe_id)
        /\ is_subscribed(1) = None
        /\ is_subscribed(2) # None

\* the bytes the flushes fs charge: those of the surviving batches of each
\* flush that gets past the two early returns
RECURSIVE ChargedBy(_)
ChargedBy(fs) ==
    IF fs = <<>> THEN 0
    ELSE (IF Head(fs).max_level = All
          THEN Bytes(Surviving(Head(fs).cmd_batches)) ELSE 0)
         + ChargedBy(Tail(fs))

\* the flushes, <<thread, rank>>, that get past the two early returns
ActingFlushes ==
    {f \in Threads \X (1..MaxFlushes) :
         /\ f[2] <= Len(observed[f[1]])
         /\ observed[f[1]][f[2]].max_level = All
         /\ Surviving(observed[f[1]][f[2]].cmd_batches) # <<>>}

\* the bytes the consumer has given back
RECURSIVE ReleasedBytes(_)
ReleasedBytes(dlv) ==
    IF dlv = <<>> THEN 0
    ELSE Bytes(dlv[1][2].multi) + ReleasedBytes(Tail(dlv))

\* C36: when flushes run concurrently on two apply threads and the scheduler
\* accepts their tasks, then once the hooks have returned the quota usage has
\* grown by exactly the sum of their surviving sizes (less what the consumer
\* gave back since) and the channel holds exactly their tasks, one for each
\* flush, in whatever order the threads enqueued them: no allocation is lost
\* to a race, and with nothing consumed in_use = S1 + S2 and the queue holds
\* the two tasks.
C36_ConcurrentFlushesAddUp ==
    (sched_alive /\ \A t \in Threads : pc[t] = "idle") =>
        /\ in_use + ReleasedBytes(delivered)
               = ChargedBy(observed[1]) + ChargedBy(observed[2])
        /\ {Sent[i][1] : i \in 1..Len(Sent)} = ActingFlushes
        /\ Len(Sent) = Cardinality(ActingFlushes)
        /\ \A i \in 1..Len(Sent) :
               Sent[i][2] = MultiBatch(Surviving(
                                observed[Sent[i][1][1]][Sent[i][1][2]].cmd_batches))
        /\ delivered = <<>> =>
               /\ in_use = ChargedBy(observed[1]) + ChargedBy(observed[2])
               /\ Len(queue) = Cardinality(ActingFlushes)

\* C36, witness: both threads have returned from two flushes each, of 1 and
\* of 4 bytes, nothing was consumed, the usage is 10 and the channel holds
\* the four tasks: thread 1 ahead of thread 2 for the first flushes, thread 2
\* ahead of thread 1 for the second
C36_Witness ==
    /\ sched_alive
    /\ \A t \in Threads : pc[t] = "idle"
    /\ delivered = <<>>
    /\ origins = <<<<1, 1>>, <<2, 1>>, <<2, 2>>, <<1, 2>>>>
    /\ ChargedBy(observed[1]) = 5
    /\ ChargedBy(observed[2]) = 5
    /\ in_use = 10
    /\ Len(queue) = 4

---------------------------------------------------------------------------
(* Properties of the read statistics, of the compaction and of the error   *)
(* headers                                                                 *)

\* C37: load_data_hint returns Seek exactly when the write column family's
\* over_seek_bound differs from its value at the previous call (zero before
\* the first call) and NearSeek otherwise, and every call records the
\* current value: two calls with no change of the counter in between make
\* the second return NearSeek.
C37_HintFollowsCounterChange ==
    last.op = "load_data_hint" =>
        /\ last.ret = IF last.args.over_seek_bound # last.args.previous
                      THEN Seek
                      ELSE NearSeek
        /\ statistics.last_write_over_seek_bound = last.args.over_seek_bound

\* C37, witness: a call that followed a call at the same non-zero value of
\* the counter returned NearSeek
C37_Witness ==
    /\ last.op = "load_data_hint"
    /\ last.args.previous > 0
    /\ last.args.over_seek_bound = last.args.previous
    /\ last.ret = NearSeek
    /\ statistics.write_over_seek_bound = last.args.over_seek_bound

\* the ranks, in cf_names, of the column families whose compaction fails
FailingRanks(cf_names, failing) ==
    {i \in 1..Len(cf_names) : cf_names[i] \in failing}

\* the least of a non-empty set of ranks
FirstRank(ranks) == CHOOSE i \in ranks : \A j \in ranks : i <= j

\* C38: compact_range and compact_files_in_range visit the column families
\* in cf_names order and stop at the first one whose compaction fails,
\* returning that error: the column families before it are compacted, it and
\* the later ones are not, and Ok is returned only when every column family
\* succeeded.
C38_CompactStopsAtFirstError ==
    last.op \in {"compact_range", "compact_files_in_range"} =>
        LET cf_names == last.args.cf_names
            ranks == FailingRanks(cf_names, last.args.failing)
        IN  IF ranks = {}
            THEN /\ last.ret = Ok
                 /\ engine.compacted = cf_names
            ELSE /\ last.ret = Err(cf_names[FirstRank(ranks)])
                 /\ engine.compacted = SubSeq(cf_names, 1, FirstRank(ranks) - 1)

\* C38, witness: of three column families the second and the third fail;
\* compact_files_in_range compacted the first only and returned the error
\* of the second
C38_Witness ==
    /\ last.op = "compact_files_in_range"
    /\ Len(last.args.cf_names) = 3
    /\ FailingRanks(last.args.cf_names, last.args.failing) = {2, 3}
    /\ last.ret = Err(last.args.cf_names[2])
    /\ engine.compacted = <<last.args.cf_names[1]>>

\* the error fields in the order get_error_kind_from_header tests them
FieldOrder ==
    <<"not_leader", "region_not_found", "key_not_in_region", "epoch_not_match",
      "server_is_busy", "stale_command", "store_not_match",
      "raft_entry_too_large", "read_index_not_ready",
      "proposal_in_merging_mode", "data_is_not_ready", "region_not_initialized",
      "disk_full", "recovery_in_progress", "flashback_in_progress",
      "bucket_version_not_match">>

\* the kind and the tag of each error field
KindOfField ==
    [f \in {FieldOrder[i] : i \in 1..Len(FieldOrder)} |->
        CASE f = "not_leader" -> <<"NotLeader", "not_leader">>
          [] f = "region_not_found" -> <<"RegionNotFound", "region_not_found">>
          [] f = "key_not_in_region" -> <<"KeyNotInRegion", "key_not_in_region">>
          [] f = "epoch_not_match" -> <<"EpochNotMatch", "epoch_not_match">>
          [] f = "server_is_busy" -> <<"ServerIsBusy", "server_is_busy">>
          [] f = "stale_command" -> <<"StaleCommand", "stale_command">>
          [] f = "store_not_match" -> <<"StoreNotMatch", "store_not_match">>
          [] f = "raft_entry_too_large" ->
                 <<"RaftEntryTooLarge", "raft_entry_too_large">>
          [] f = "read_index_not_ready" ->
                 <<"ReadIndexNotReady", "read_index_not_ready">>
          [] f = "proposal_in_merging_mode" ->
                 <<"ProposalInMergeMode", "proposal_in_merge_mode">>
          [] f = "data_is_not_ready" -> <<"DataNotReady", "data_not_ready">>
          [] f = "region_not_initialized" ->
                 <<"RegionNotInitialized", "region_not_initialized">>
          [] f = "disk_full" -> <<"DiskFull", "disk_full">>
          [] f = "recovery_in_progress" ->
                 <<"RecoveryInProgress", "recovery_in_progress">>
          [] f = "flashback_in_progress" ->
                 <<"FlashbackInProgress", "flashback_in_progress">>
          [] f = "bucket_version_not_match" ->
                 <<"BucketsVersionNotMatch", "buckets_version_not_match">>]

\* C39: get_error_kind_from_header returns the kind of the first error field
\* set in the header, testing the fields in the fixed order not_leader,
\* region_not_found, key_not_in_region, epoch_not_match, server_is_busy and
\* so on, and returns Other when none is set; get_tag_from_header then
\* yields "other", and the tag of the kind otherwise.
C39_FirstSetFieldGivesKind ==
    last.op = "get_tag_from_header" =>
        LET ranks == {i \in 1..Len(FieldOrder) : FieldOrder[i] \in last.args.header}
        IN  IF ranks = {}
            THEN last.ret = [kind |-> "Other", tag |-> "other"]
            ELSE LET first == FieldOrder[FirstRank(ranks)]
                 IN  last.ret = [kind |-> KindOfField[first][1],
                                 tag |-> KindOfField[first][2]]

\* C39, witness: a header with server_is_busy and epoch_not_match set gave
\* EpochNotMatch, the one tested first
C39_Witness ==
    /\ last.op = "get_tag_from_header"
    /\ last.args.header = {"server_is_busy", "epoch_not_match"}
    /\ last.ret = [kind |-> "EpochNotMatch", tag |-> "epoch_not_match"]

====
